---- MODULE Spec2Model ----
(***************************************************************************)
(* Guide tour playback of census-sdk.                                      *)
(*                                                                         *)
(*   useGuideRenderer (hooks, src/unnamed/part_003:764-936): the playback  *)
(*   state activeGuide / currentStepIndex / isPlaying / completedGuideIds  *)
(*   / dismissedGuideIds, its controls and its analytics helpers.          *)
(*                                                                         *)
(*   GuideRenderer (src/src/react/components/GuideRenderer/               *)
(*   StepContent.tsx:235-334): the component that shows one step at a time *)
(*   through a presenter, with the controls the presenters offer          *)
(*   (StepButtons, BannerStep).                                            *)
(*                                                                         *)
(* Every control is modelled as it runs when called from the latest        *)
(* render: the values its closure reads are the current state.             *)
(***************************************************************************)
EXTENDS Integers, Sequences, FiniteSets, TLC

\* ---------------------------------------------------------------- bounds
MaxSteps == 2       \* longest guide (guide_steps.length ranges over 0..MaxSteps)
MaxRecorded == 2    \* ids recorded in completedGuideIds and dismissedGuideIds together
MaxTimers == 2      \* pending BannerStep dismiss timers
MaxChildren == 2    \* children of an element an EmbeddedStep targets
MaxElements == 2    \* elements of the document searched by findElement
MaxPicks == 2       \* elements reported by the ElementSelector
MaxNesting == 1     \* levels of elements nested inside an element of a step body
MaxRenders == 4     \* callback identities, and pending timers, of one presenter
MaxCalls == 2       \* CensusClient.request calls made one after the other
MaxBatch == 2       \* calls made through the callbacks of one render

\* ---------------------------------------------------------------- data
\* Guide.id: two guides, enough for one guide to replace or follow another
\* (the code only stores and appends ids)
GuideIds == {1, 2}

\* types.ts GuideStepType
StepTypes == {"tooltip", "modal", "slideout", "hotspot", "banner", "embedded"}

\* A step as the playback code reads it: its step_type, the actions of its
\* rich_content.buttons (the empty set: no custom buttons) and whether
\* findElement(step.selector_strategy) finds an element the presenter can
\* use on the page.
DefaultStep == [step_type |-> "tooltip", buttons |-> {}, resolves |-> TRUE]

\* useState<Guide | null>(null): the null guide
NoGuide == [id |-> 0, guide_steps |-> << >>]

\* The guides handed to the hook: it reads only id and guide_steps.length.
HookGuides ==
    { [id |-> i, guide_steps |-> [k \in 1..n |-> DefaultStep]] :
        i \in GuideIds, n \in 0..MaxSteps }

\* startStep / stepIndex arguments: any integer, explored around the range
StepArgs == (0 - 1)..(MaxSteps + 1)

\* activeGuide.guide_steps || []  followed by .length
StepsLength(g) == Len(g.guide_steps)

\* index names a step of g
InRange(g, index) == 0 <= index /\ index < StepsLength(g)

\* outcomes of client.track(...): resolves, rejects, or never settles
TrackOutcomes == {"resolves", "rejects", "hangs"}

VARIABLES
    \* useGuideRenderer state
    activeGuide, currentStepIndex, isPlaying,
    completedGuideIds, dismissedGuideIds,
    \* history: the last call made (for a track* call, with the promise it
    \* returned), the session phase, the run of advances
    \* (phase: Idle, Playing, Completed by the advance from the last step,
    \* Ended by an advance from an index outside the guide, Dismissed)
    lastCall, phase, run,
    \* GuideRenderer: its guide prop, whether it is mounted, its state
    guide, mounted, shownStepIndex, isActive,
    \* HotspotStep: useState(false) of its popover
    isExpanded,
    \* calls received by the onComplete and onDismiss props
    onCompleteCalls, onDismissCalls,
    \* the last call received by the onStepChange prop (n: flipped by every call)
    stepChange,
    \* BannerStep.handleDismiss timeouts not yet fired: the step index of the
    \* render whose onDismiss each one holds
    bannerTimers,
    \* history: the last control activated, and the index it was shown at
    lastClick,
    \* the host page: the children of the elements an EmbeddedStep can target,
    \* and (history) the children they had before any EmbeddedStep mounted
    dom, domOriginal,
    \* EmbeddedStep: its props, state and refs
    embedded,
    \* the last calculatePosition call: its arguments, the window it read and
    \* the ComputedPosition it returned
    positionCall,
    \* the last findElement / generateSelector round: the document, the
    \* descriptor and what was returned
    findCall,
    \* ElementSelector: isActive, its hover state, the onSelect / onCancel calls
    picker,
    \* the last StepContent body: the string and what was rendered
    bodyCall,
    \* a presenter with window listeners (TooltipStep, HotspotStep, Backdrop):
    \* the listeners and timers it has registered
    presenter,
    \* a CensusClient.request call: its attempts and how it ended
    request,
    \* the render of useGuideRenderer whose callbacks the host component holds
    captured

hookState ==
    <<activeGuide, currentStepIndex, isPlaying, completedGuideIds, dismissedGuideIds>>

hookVars ==
    <<activeGuide, currentStepIndex, isPlaying, completedGuideIds,
      dismissedGuideIds, lastCall, phase, run>>

rendererVars ==
    <<guide, mounted, shownStepIndex, isActive, isExpanded, onCompleteCalls,
      onDismissCalls, stepChange, bannerTimers, lastClick>>

embeddedVars == <<dom, domOriginal, embedded>>

restVars == <<presenter, request, captured>>

pageVars == <<embeddedVars, positionCall, findCall, picker, bodyCall, restVars>>

vars == <<hookVars, rendererVars, pageVars>>

\* ---------------------------------------------------------------- history
NoRun == [guide |-> NoGuide, k |-> 0 - 1]

\* A call: the control, its arguments, and the id of activeGuide (0: none)
\* and the currentStepIndex of the render whose closure made it (inRange:
\* that index named a step of that guide).
NoTrack == [state |-> "none", event |-> "none", outcome |-> "none"]

Call(op, g, arg) ==
    [op |-> op, guide |-> g, arg |-> arg,
     from |-> activeGuide.id, at |-> currentStepIndex,
     inRange |-> InRange(activeGuide, currentStepIndex), promise |-> NoTrack]

\* room left for one more recorded id
CanRecord == Len(completedGuideIds) + Len(dismissedGuideIds) < MaxRecorded

\* run counts the nextStep calls made since startGuide(guide, 0) with no
\* other call in between, up to the one that ends the guide.
RunAfterNext ==
    IF run.k >= 0 /\ run.k < StepsLength(run.guide)
    THEN [run EXCEPT !.k = run.k + 1]
    ELSE NoRun

\* ---------------------------------------------------------------- init
NoClick == [label |-> "none", calls |-> "none", at |-> 0]

\* EmbeddedStep not rendered
NoEmbedded ==
    [mounted |-> FALSE, selector |-> 0, position |-> "append",
     targetElement |-> 0, containerRef |-> 0, originalContentRef |-> << >>]

\* no element of the page is a target of an EmbeddedStep
EmbeddedIdle ==
    /\ dom = [t \in {} |-> << >>]
    /\ domOriginal = dom
    /\ embedded = NoEmbedded

\* no call made yet
NoCall == [made |-> FALSE]

PositionIdle == positionCall = NoCall
FindIdle == findCall = NoCall
PickerIdle == picker = NoCall
BodyIdle == bodyCall = NoCall

RestIdle == presenter = NoCall /\ request = NoCall /\ captured = NoCall

\* nothing of the page is involved
PageIdle ==
    /\ RestIdle
    /\ EmbeddedIdle
    /\ PositionIdle
    /\ FindIdle
    /\ PickerIdle
    /\ BodyIdle

\* no GuideRenderer on the page
RendererIdle ==
    /\ guide = NoGuide
    /\ mounted = FALSE
    /\ shownStepIndex = 0
    /\ isActive = FALSE
    /\ isExpanded = FALSE
    /\ onCompleteCalls = << >>
    /\ onDismissCalls = << >>
    /\ stepChange = [index |-> 0, total |-> 0, n |-> 0]
    /\ bannerTimers = << >>
    /\ lastClick = NoClick

\* the hook as constructed
HookInit ==
    /\ activeGuide = NoGuide
    /\ currentStepIndex = 0
    /\ isPlaying = FALSE
    /\ completedGuideIds = << >>
    /\ dismissedGuideIds = << >>
    /\ lastCall = [op |-> "init", guide |-> NoGuide, arg |-> 0,
                   from |-> 0, at |-> 0, inRange |-> FALSE, promise |-> NoTrack]
    /\ phase = "Idle"
    /\ run = NoRun

\* no GuideRenderer on the page
Init ==
    /\ HookInit
    /\ RendererIdle
    /\ PageIdle

\* ---------------------------------------------------------------- controls

\* mutant: a start is refused while another guide is active
StartedGuide_KeepsActive(current, g) ==
    IF current # NoGuide THEN current ELSE g

\* startGuide(guide, startStep = 0): setActiveGuide(guide) whatever is active
StartedGuide(current, g) == g

startGuide(g, startStep) ==
    /\ activeGuide' = StartedGuide(activeGuide, g)
    /\ currentStepIndex' = startStep
    /\ isPlaying' = TRUE
    /\ UNCHANGED <<completedGuideIds, dismissedGuideIds>>
    /\ lastCall' = Call("startGuide", g, startStep)
    /\ UNCHANGED <<rendererVars, pageVars>>
    /\ phase' = "Playing"
    /\ run' = IF startStep = 0 THEN [guide |-> g, k |-> 0] ELSE NoRun

\* mutant: advancing is allowed from the last step
NextStepAdvances_OffByOne(g, index) == index < StepsLength(g)

\* nextStep: the test that decides between advancing and completing
NextStepAdvances(g, index) == index < StepsLength(g) - 1

nextStep ==
    /\ lastCall' = Call("nextStep", NoGuide, 0)
    /\ UNCHANGED <<rendererVars, pageVars>>
    /\ run' = RunAfterNext
    /\ IF activeGuide = NoGuide
       THEN UNCHANGED <<hookState, phase>>
       ELSE IF NextStepAdvances(activeGuide, currentStepIndex)
            THEN /\ currentStepIndex' = currentStepIndex + 1
                 /\ UNCHANGED <<activeGuide, isPlaying, completedGuideIds,
                                dismissedGuideIds, phase>>
            ELSE /\ CanRecord
                 /\ completedGuideIds' = Append(completedGuideIds, activeGuide.id)
                 /\ isPlaying' = FALSE
                 /\ activeGuide' = NoGuide
                 /\ phase' = IF InRange(activeGuide, currentStepIndex)
                             THEN "Completed" ELSE "Ended"
                 /\ UNCHANGED <<currentStepIndex, dismissedGuideIds>>

\* prevStep: the only test it makes
PrevStepMoves(index) == index > 0

prevStep ==
    /\ lastCall' = Call("prevStep", NoGuide, 0)
    /\ UNCHANGED <<rendererVars, pageVars>>
    /\ run' = NoRun
    /\ UNCHANGED phase
    /\ IF PrevStepMoves(currentStepIndex)
       THEN /\ currentStepIndex' = currentStepIndex - 1
            /\ UNCHANGED <<activeGuide, isPlaying, completedGuideIds, dismissedGuideIds>>
       ELSE UNCHANGED hookState

\* mutant: the upper end of the range is included
GoToStepValid_Inclusive(g, stepIndex) ==
    stepIndex >= 0 /\ stepIndex <= StepsLength(g)

\* goToStep(stepIndex): the range test
GoToStepValid(g, stepIndex) ==
    stepIndex >= 0 /\ stepIndex < StepsLength(g)

goToStep(stepIndex) ==
    /\ lastCall' = Call("goToStep", NoGuide, stepIndex)
    /\ UNCHANGED <<rendererVars, pageVars>>
    /\ run' = NoRun
    /\ UNCHANGED phase
    /\ IF activeGuide # NoGuide /\ GoToStepValid(activeGuide, stepIndex)
       THEN /\ currentStepIndex' = stepIndex
            /\ UNCHANGED <<activeGuide, isPlaying, completedGuideIds, dismissedGuideIds>>
       ELSE UNCHANGED hookState

\* mutant: dismiss forgets to reset the index
IndexAfterDismiss_Kept(index) == index

\* dismiss: what it leaves in currentStepIndex
IndexAfterDismiss(index) == 0

\* mutant: the dismissed guide is not recorded
RecordDismissed_Skips(ids, g) == ids

\* dismiss: setDismissedGuideIds((prev) => [...prev, activeGuide.id])
RecordDismissed(ids, g) == Append(ids, g.id)

dismiss ==
    /\ lastCall' = Call("dismiss", NoGuide, 0)
    /\ UNCHANGED <<rendererVars, pageVars>>
    /\ run' = NoRun
    /\ UNCHANGED completedGuideIds
    /\ IF activeGuide # NoGuide
       THEN /\ CanRecord
            /\ dismissedGuideIds' = RecordDismissed(dismissedGuideIds, activeGuide)
            /\ phase' = "Dismissed"
       ELSE UNCHANGED <<dismissedGuideIds, phase>>
    /\ isPlaying' = FALSE
    /\ activeGuide' = NoGuide
    /\ currentStepIndex' = IndexAfterDismiss(currentStepIndex)

pause ==
    /\ lastCall' = Call("pause", NoGuide, 0)
    /\ UNCHANGED <<rendererVars, pageVars>>
    /\ run' = NoRun
    /\ isPlaying' = FALSE
    /\ UNCHANGED <<activeGuide, currentStepIndex, completedGuideIds,
                   dismissedGuideIds, phase>>

resume ==
    /\ lastCall' = Call("resume", NoGuide, 0)
    /\ UNCHANGED <<rendererVars, pageVars>>
    /\ run' = NoRun
    /\ isPlaying' = IF activeGuide # NoGuide THEN TRUE ELSE isPlaying
    /\ UNCHANGED <<activeGuide, currentStepIndex, completedGuideIds,
                   dismissedGuideIds, phase>>

\* ---------------------------------------------------------------- closures

\* useGuideRenderer renders: the useCallback controls are renewed and close
\* over activeGuide and currentStepIndex of this render
render ==
    /\ captured' = [made |-> TRUE, activeGuide |-> activeGuide,
                    currentStepIndex |-> currentStepIndex, calls |-> 0]
    /\ UNCHANGED <<hookVars, rendererVars, embeddedVars, positionCall, findCall,
                   picker, bodyCall, presenter, request>>

\* A control is called through the callbacks of the captured render, which
\* may not be the latest: in the same event handler as another call, or
\* from a callback kept across renders. Its tests read the captured
\* activeGuide and currentStepIndex; (prev) => updaters read the state.
callCaptured(op, g, arg) ==
    LET closure == captured
    IN
    /\ captured.calls < MaxBatch
    /\ captured' = [captured EXCEPT !.calls = @ + 1]
    /\ lastCall' = [op |-> op, guide |-> NoGuide, arg |-> 0,
                    from |-> closure.activeGuide.id,
                    at |-> closure.currentStepIndex,
                    inRange |-> InRange(closure.activeGuide, closure.currentStepIndex),
                    promise |-> NoTrack]
    /\ UNCHANGED <<phase, run>>
    /\ UNCHANGED <<rendererVars, embeddedVars, positionCall, findCall, picker,
                   bodyCall, presenter, request>>
    /\ CASE op = "startGuide" ->
              /\ activeGuide' = StartedGuide(activeGuide, g)
              /\ currentStepIndex' = arg
              /\ isPlaying' = TRUE
              /\ UNCHANGED <<completedGuideIds, dismissedGuideIds>>
         [] op = "nextStep" ->
              IF closure.activeGuide = NoGuide
              THEN UNCHANGED hookState
              ELSE IF NextStepAdvances(closure.activeGuide, closure.currentStepIndex)
                   THEN /\ currentStepIndex' = currentStepIndex + 1
                        /\ UNCHANGED <<activeGuide, isPlaying, completedGuideIds,
                                       dismissedGuideIds>>
                   ELSE /\ CanRecord
                        /\ completedGuideIds' =
                               Append(completedGuideIds, closure.activeGuide.id)
                        /\ isPlaying' = FALSE
                        /\ activeGuide' = NoGuide
                        /\ UNCHANGED <<currentStepIndex, dismissedGuideIds>>
         [] op = "prevStep" ->
              IF PrevStepMoves(closure.currentStepIndex)
              THEN /\ currentStepIndex' = currentStepIndex - 1
                   /\ UNCHANGED <<activeGuide, isPlaying, completedGuideIds,
                                  dismissedGuideIds>>
              ELSE UNCHANGED hookState
         [] op = "goToStep" ->
              IF closure.activeGuide # NoGuide
                     /\ GoToStepValid(closure.activeGuide, arg)
              THEN /\ currentStepIndex' = arg
                   /\ UNCHANGED <<activeGuide, isPlaying, completedGuideIds,
                                  dismissedGuideIds>>
              ELSE UNCHANGED hookState
         [] op = "dismiss" ->
              /\ IF closure.activeGuide # NoGuide
                 THEN /\ CanRecord
                      /\ dismissedGuideIds' =
                             RecordDismissed(dismissedGuideIds, closure.activeGuide)
                 ELSE UNCHANGED dismissedGuideIds
              /\ isPlaying' = FALSE
              /\ activeGuide' = NoGuide
              /\ currentStepIndex' = IndexAfterDismiss(currentStepIndex)
              /\ UNCHANGED completedGuideIds
         [] op = "pause" ->
              /\ isPlaying' = FALSE
              /\ UNCHANGED <<activeGuide, currentStepIndex, completedGuideIds,
                             dismissedGuideIds>>
         [] op = "resume" ->
              /\ isPlaying' = IF closure.activeGuide # NoGuide THEN TRUE
                                                                ELSE isPlaying
              /\ UNCHANGED <<activeGuide, currentStepIndex, completedGuideIds,
                             dismissedGuideIds>>

\* the hook after its first render
InitCaptured ==
    /\ HookInit
    /\ RendererIdle
    /\ EmbeddedIdle
    /\ PositionIdle
    /\ FindIdle
    /\ PickerIdle
    /\ BodyIdle
    /\ presenter = NoCall
    /\ request = NoCall
    /\ captured = [made |-> TRUE, activeGuide |-> NoGuide,
                   currentStepIndex |-> 0, calls |-> 0]

NextCaptured ==
    \/ render
    \/ \E op \in {"nextStep", "prevStep", "dismiss", "pause", "resume"} :
           callCaptured(op, NoGuide, 0)
    \/ \E g \in {h \in HookGuides : h.id = 1}, startStep \in 0..MaxSteps :
           callCaptured("startGuide", g, startStep)
    \/ \E stepIndex \in StepArgs : callCaptured("goToStep", NoGuide, stepIndex)

SpecCaptured == InitCaptured /\ [][NextCaptured]_vars

\* ---------------------------------------------------------------- tracking

\* mutant: the catch is missing
TrackSettled_NoCatch(outcome) ==
    CASE outcome = "resolves" -> "fulfilled"
      [] outcome = "rejects" -> "rejected"
      [] outcome = "hangs" -> "pending"

\* try { await client.track(...) } catch { }: how the returned promise ends
TrackSettled(outcome) ==
    CASE outcome = "resolves" -> "fulfilled"
      [] outcome = "rejects" -> "fulfilled"
      [] outcome = "hangs" -> "pending"

\* guide.guide_steps?.[stepIndex] is a step
HasStep(g, stepIndex) ==
    stepIndex >= 0 /\ stepIndex < StepsLength(g)

\* The guides and indices named in analytics calls: the payload is not read
\* back, only whether the index names a step of the guide.
TrackGuides == {g \in HookGuides : g.id = 1 /\ StepsLength(g) \in {0, MaxSteps}}
TrackArgs == {0 - 1, 0, MaxSteps}

\* the call of a tracking helper and the promise it returned
TrackCall(op, state, event, outcome) ==
    [Call(op, NoGuide, 0) EXCEPT
        !.promise = [state |-> state, event |-> event, outcome |-> outcome]]

trackStepView(g, stepIndex, outcome) ==
    /\ lastCall' = IF HasStep(g, stepIndex)
                   THEN TrackCall("trackStepView", TrackSettled(outcome),
                                  "guide_step_viewed", outcome)
                   ELSE TrackCall("trackStepView", "fulfilled", "none", "none")
    /\ run' = NoRun
    /\ UNCHANGED <<hookState, phase, rendererVars, pageVars>>

trackGuideComplete(g, outcome) ==
    /\ lastCall' = TrackCall("trackGuideComplete", TrackSettled(outcome),
                             "guide_completed", outcome)
    /\ run' = NoRun
    /\ UNCHANGED <<hookState, phase, rendererVars, pageVars>>

trackGuideDismiss(g, stepIndex, outcome) ==
    /\ lastCall' = TrackCall("trackGuideDismiss", TrackSettled(outcome),
                             "guide_dismissed", outcome)
    /\ run' = NoRun
    /\ UNCHANGED <<hookState, phase, rendererVars, pageVars>>

\* ---------------------------------------------------------------- GuideRenderer

\* actions of rich_content.buttons (StepButtons.handleButtonClick)
ButtonActions == {"next", "prev", "dismiss", "url", "custom"}

\* The steps handed to GuideRenderer: every step type, without custom
\* buttons or with one button of every action, with a selector that
\* resolves on the page or not.
StepKinds ==
    [step_type : StepTypes, buttons : {{}, ButtonActions}, resolves : BOOLEAN]

RECURSIVE StepSeqs(_)
StepSeqs(n) ==
    IF n = 0 THEN {<< >>}
    ELSE {<< >>} \cup { <<k>> \o t : k \in StepKinds, t \in StepSeqs(n - 1) }

RendererGuides == { [id |-> 1, guide_steps |-> t] : t \in StepSeqs(MaxSteps) }

\* const currentStep = steps[currentStepIndex] is defined
HasCurrentStep == shownStepIndex >= 0 /\ shownStepIndex < StepsLength(guide)

currentStep == guide.guide_steps[shownStepIndex + 1]

\* if (!isActive || !currentStep || steps.length === 0) return null
Rendered == mounted /\ isActive /\ HasCurrentStep /\ StepsLength(guide) # 0

Control(label, calls) == [label |-> label, calls |-> calls]

\* mutant: the primary button advances on every step
StepButtons_AlwaysNext(buttons, current, isLastStep, onDismiss) ==
    IF buttons = {}
    THEN (IF current > 0 THEN {Control("Back", "onPrev")} ELSE {})
         \cup {Control(IF isLastStep THEN "Done" ELSE "Next", "onNext")}
    ELSE { Control(a, CASE a = "next" -> "onNext"
                        [] a = "prev" -> "onPrev"
                        [] a = "dismiss" -> onDismiss
                        [] OTHER -> "none") : a \in buttons }

\* StepButtons: the buttons it renders and the prop each one calls
\* (onDismiss: the dismiss prop the presenter passed in)
StepButtons(buttons, current, isLastStep, onDismiss) ==
    IF buttons = {}
    THEN (IF current > 0 THEN {Control("Back", "onPrev")} ELSE {})
         \cup {IF isLastStep THEN Control("Done", onDismiss)
                             ELSE Control("Next", "onNext")}
    ELSE { Control(a, CASE a = "next" -> "onNext"
                        [] a = "prev" -> "onPrev"
                        [] a = "dismiss" -> onDismiss
                        [] OTHER -> "none") : a \in buttons }

\* BannerStep: its actions and its close button; every dismiss goes through
\* BannerStep.handleDismiss ("bannerDismiss": the 200 ms timeout)
BannerStep(step, current, totalSteps) ==
    (IF step.buttons # {}
     THEN StepButtons(step.buttons, current, current = totalSteps - 1, "bannerDismiss")
     ELSE {IF current < totalSteps - 1 THEN Control("Next", "onNext")
                                       ELSE Control("Got it", "bannerDismiss")})
    \cup {Control("Close", "bannerDismiss")}

\* the presenters that render a close button (or Escape / backdrop dismiss)
ClosablePresenters == {"modal", "slideout", "embedded"}

\* TooltipStep (anchored, or the centered fallback of an unresolved
\* selector: both render StepButtons with the same props), ModalStep,
\* SlideoutStep, and the content of a mounted EmbeddedStep
OtherStep(step, current, totalSteps) ==
    StepButtons(step.buttons, current, current = totalSteps - 1, "onDismiss")
    \cup (IF step.step_type \in ClosablePresenters
          THEN {Control("Close", "onDismiss")} ELSE {})

\* TooltipStep: if (!targetElement) it renders the centered fallback
TooltipFallback(step) == step.step_type = "tooltip" /\ ~step.resolves

\* HotspotStep: if (!targetElement) return null; else the beacon and, when
\* expanded, the popover with its StepButtons (a mousedown outside the
\* popover is heard only while it is expanded)
HotspotStep(step, current, totalSteps, expanded) ==
    IF ~step.resolves THEN {}
    ELSE {Control("Beacon", "beacon")}
         \cup (IF expanded
               THEN StepButtons(step.buttons, current, current = totalSteps - 1,
                                "onDismiss")
                    \cup {Control("Outside", "mousedownOutside")}
               ELSE {})

\* EmbeddedStep: if (!targetElement || !isReady || !containerRef.current)
\* return null (resolves: findElement found an element and canEmbed(element))
EmbeddedStep(step, current, totalSteps) ==
    IF ~step.resolves THEN {} ELSE OtherStep(step, current, totalSteps)

\* switch (currentStep.step_type): the controls on screen
ControlsShown ==
    IF ~Rendered THEN {}
    ELSE CASE currentStep.step_type = "banner" ->
                BannerStep(currentStep, shownStepIndex, StepsLength(guide))
           [] currentStep.step_type = "hotspot" ->
                HotspotStep(currentStep, shownStepIndex, StepsLength(guide),
                            isExpanded)
           [] currentStep.step_type = "embedded" ->
                EmbeddedStep(currentStep, shownStepIndex, StepsLength(guide))
           [] OTHER ->
                OtherStep(currentStep, shownStepIndex, StepsLength(guide))

\* the presenter of the current step shows its content and buttons
PresenterOpen ==
    /\ Rendered
    /\ CASE currentStep.step_type = "hotspot" -> currentStep.resolves /\ isExpanded
         [] currentStep.step_type = "embedded" -> currentStep.resolves
         [] OTHER -> TRUE

\* handleClickOutside: a mousedown outside the popover, heard while expanded
AfterMouseDownOutside(expanded) == FALSE

\* the beacon's onClick={() => setIsExpanded(!isExpanded)}
BeaconClick(expanded) == ~expanded

\* A click on the beacon is its mousedown, which the document listener of an
\* expanded popover hears as outside the popover, then its click, handled by
\* the render that followed the mousedown.
BeaconGesture(expanded) ==
    BeaconClick(IF expanded THEN AfterMouseDownOutside(expanded) ELSE expanded)

\* mutant: the effect does not depend on currentStepIndex
onStepChangeEffect_MountOnly == stepChange' = stepChange

\* useEffect(() => onStepChange?.(currentStepIndex, totalSteps),
\* [currentStepIndex, totalSteps, onStepChange]): it runs after the commit
\* in which a dependency changed (guide and onStepChange are props that stay)
onStepChangeEffect ==
    stepChange' =
        IF shownStepIndex' # shownStepIndex
        THEN [index |-> shownStepIndex', total |-> StepsLength(guide),
              n |-> 1 - stepChange.n]
        ELSE stepChange

\* GuideRenderer as constructed with props guide and startStep, its mount
\* effect run
InitRenderer ==
    /\ HookInit
    /\ PageIdle
    /\ guide \in RendererGuides
    /\ mounted = TRUE
    /\ shownStepIndex \in StepArgs
    /\ isActive = TRUE
    /\ isExpanded = FALSE
    /\ onCompleteCalls = << >>
    /\ onDismissCalls = << >>
    /\ stepChange = [index |-> shownStepIndex, total |-> StepsLength(guide), n |-> 0]
    /\ bannerTimers = << >>
    /\ lastClick = NoClick

Clicked(c) == lastClick' = [label |-> c.label, calls |-> c.calls, at |-> shownStepIndex]

handleNext ==
    IF shownStepIndex < StepsLength(guide) - 1
    THEN /\ shownStepIndex' = shownStepIndex + 1
         /\ UNCHANGED <<isActive, onCompleteCalls>>
    ELSE /\ isActive' = FALSE
         /\ onCompleteCalls' = Append(onCompleteCalls, guide.id)
         /\ UNCHANGED shownStepIndex

handlePrev ==
    shownStepIndex' = IF shownStepIndex > 0 THEN shownStepIndex - 1
                                              ELSE shownStepIndex

\* handleDismiss of the render at index `index`
DismissReport(index) == [guide |-> guide.id, step |-> index]

\* HotspotStep wraps onNext / onPrev / onDismiss: setIsExpanded(false) first
Collapsed == isExpanded' = FALSE

\* a control is activated
Click(c) ==
    /\ c \in ControlsShown
    /\ Clicked(c)
    /\ UNCHANGED <<guide, mounted>>
    /\ UNCHANGED <<hookVars, pageVars>>
    /\ CASE c.calls = "onNext" ->
              /\ handleNext
              /\ Collapsed
              /\ UNCHANGED <<onDismissCalls, bannerTimers>>
         [] c.calls = "onPrev" ->
              /\ handlePrev
              /\ Collapsed
              /\ UNCHANGED <<isActive, onCompleteCalls, onDismissCalls, bannerTimers>>
         [] c.calls = "onDismiss" ->
              /\ isActive' = FALSE
              /\ Collapsed
              /\ onDismissCalls' = Append(onDismissCalls, DismissReport(shownStepIndex))
              /\ UNCHANGED <<shownStepIndex, onCompleteCalls, bannerTimers>>
         [] c.calls = "bannerDismiss" ->
              /\ Len(bannerTimers) < MaxTimers
              /\ bannerTimers' = Append(bannerTimers, shownStepIndex)
              /\ UNCHANGED <<shownStepIndex, isActive, isExpanded,
                             onCompleteCalls, onDismissCalls>>
         [] c.calls = "beacon" ->
              /\ isExpanded' = BeaconGesture(isExpanded)
              /\ UNCHANGED <<shownStepIndex, isActive, onCompleteCalls,
                             onDismissCalls, bannerTimers>>
         [] c.calls = "mousedownOutside" ->
              /\ isExpanded' = AfterMouseDownOutside(isExpanded)
              /\ UNCHANGED <<shownStepIndex, isActive, onCompleteCalls,
                             onDismissCalls, bannerTimers>>
         [] c.calls = "none" ->
              UNCHANGED <<shownStepIndex, isActive, isExpanded, onCompleteCalls,
                          onDismissCalls, bannerTimers>>
    /\ onStepChangeEffect

\* a BannerStep timeout fires: setIsVisible(false); onDismiss(); GuideRenderer
\* then renders nothing, which unmounts the presenter and its state
BannerTimerFires ==
    /\ bannerTimers # << >>
    /\ bannerTimers' = Tail(bannerTimers)
    /\ isActive' = FALSE
    /\ isExpanded' = FALSE
    /\ onDismissCalls' = Append(onDismissCalls, DismissReport(Head(bannerTimers)))
    /\ UNCHANGED <<guide, mounted, shownStepIndex, onCompleteCalls, stepChange,
                   lastClick>>
    /\ UNCHANGED <<hookVars, pageVars>>

\* the parent stops rendering GuideRenderer
Unmount ==
    /\ mounted
    /\ mounted' = FALSE
    /\ isExpanded' = FALSE
    /\ UNCHANGED <<guide, shownStepIndex, isActive, onCompleteCalls,
                   onDismissCalls, stepChange, bannerTimers, lastClick>>
    /\ UNCHANGED <<hookVars, pageVars>>

\* ---------------------------------------------------------------- EmbeddedStep

\* the elements of the host page that a selector can resolve to and that
\* can embed; selector 0: no such element (the step hides)
Targets == {1, 2}

\* A child node of a target: its markup, and whether the node was created
\* by parsing markup after the page was built (fresh) or is a node of the
\* page as built.
PageMarkups == {"a", "b"}
PageNodes == [markup : PageMarkups, fresh : {FALSE}]

\* document.createElement('div') with data-census-embedded="true"
Container == [markup |-> "census-embedded", fresh |-> TRUE]

RECURSIVE NodeSeqs(_)
NodeSeqs(n) ==
    IF n = 0 THEN {<< >>}
    ELSE {<< >>} \cup { <<k>> \o t : k \in PageNodes, t \in NodeSeqs(n - 1) }

\* types.ts EmbeddedPosition
EmbeddedPositions == {"prepend", "append", "replace"}

\* element.innerHTML read: the markup of the children, in order
InnerHTML(children) == [i \in 1..Len(children) |-> children[i].markup]

\* element.innerHTML = html: the children are replaced by nodes parsed from html
ParseHTML(html) == [i \in 1..Len(html) |-> [markup |-> html[i], fresh |-> TRUE]]

\* container.remove(): the children without the container
WithoutContainer(children) == SelectSeq(children, LAMBDA n : n # Container)

\* useRef<string | null>: << >> is null, <<html>> holds the string html
RefTo(html) == <<html>>

\* the insertion effect, on the children of the target
Inserted(children, position) ==
    CASE position = "replace" -> <<Container>>
      [] position = "prepend" -> <<Container>> \o children
      [] OTHER -> children \o <<Container>>

\* mutant: the cleanup does not restore the replaced content
RestoredContent_Skips(children, position, originalContentRef) == children

\* the cleanup's restore, on the children left once the container is removed:
\* if (position === 'replace' && originalContentRef.current !== null && targetElement)
RestoredContent(children, position, originalContentRef) ==
    IF position = "replace" /\ originalContentRef # << >>
    THEN ParseHTML(originalContentRef[1])
    ELSE children

\* The page after the cleanup returned by the insertion effect of the
\* render with the given targetElement and position has run.
CleanedUp(page, e) ==
    IF e.targetElement = 0 THEN page
    ELSE LET removed == IF e.containerRef # 0
                        THEN [page EXCEPT ![e.containerRef] = WithoutContainer(@)]
                        ELSE page
         IN [removed EXCEPT ![e.targetElement] =
                 RestoredContent(@, e.position, e.originalContentRef)]

\* The commit that follows a render with props (selector, position): the
\* lookup effect sets targetElement, the cleanup of the previous insertion
\* runs if targetElement or position changed, then the new insertion.
\* e: the component before the commit.
Committed(e, selector, position) ==
    IF e.mounted /\ e.targetElement = selector /\ e.position = position
    THEN /\ embedded' = [e EXCEPT !.selector = selector]
         /\ UNCHANGED dom
    ELSE LET page == IF e.mounted THEN CleanedUp(dom, e) ELSE dom
         IN IF selector = 0
            THEN /\ dom' = page
                 /\ embedded' = [mounted |-> TRUE, selector |-> selector,
                                 position |-> position, targetElement |-> 0,
                                 containerRef |-> 0, originalContentRef |-> << >>]
            ELSE /\ dom' = [page EXCEPT ![selector] = Inserted(@, position)]
                 /\ embedded' =
                        [mounted |-> TRUE, selector |-> selector,
                         position |-> position, targetElement |-> selector,
                         containerRef |-> selector,
                         originalContentRef |->
                             IF position = "replace"
                             THEN RefTo(InnerHTML(page[selector]))
                             ELSE << >>]

\* an embedded step becomes the current step
MountEmbedded(selector, position) ==
    /\ ~embedded.mounted
    /\ Committed(embedded, selector, position)
    /\ UNCHANGED <<domOriginal, hookVars, rendererVars, restVars,
                   positionCall, findCall, picker, bodyCall>>

\* the next step is an embedded step too: the selector_strategy prop changes
ChangeEmbeddedStep(selector) ==
    /\ embedded.mounted
    /\ selector # embedded.selector
    /\ Committed(embedded, selector, embedded.position)
    /\ UNCHANGED <<domOriginal, hookVars, rendererVars, restVars,
                   positionCall, findCall, picker, bodyCall>>

\* display_config.embeddedPosition changes
ChangeEmbeddedPosition(position) ==
    /\ embedded.mounted
    /\ position # embedded.position
    /\ Committed(embedded, embedded.selector, position)
    /\ UNCHANGED <<domOriginal, hookVars, rendererVars, restVars,
                   positionCall, findCall, picker, bodyCall>>

\* teardown: the cleanup of the last insertion
TornDown ==
    /\ dom' = CleanedUp(dom, embedded)
    /\ embedded' = [NoEmbedded EXCEPT !.position = embedded.position]
    /\ UNCHANGED <<domOriginal, hookVars, rendererVars, restVars,
                   positionCall, findCall, picker, bodyCall>>

\* the step changes to another presenter, or GuideRenderer is unmounted
UnmountEmbedded ==
    /\ embedded.mounted
    /\ TornDown

\* the close button or a dismissing button of the embedded content:
\* onDismiss, after which GuideRenderer renders nothing
DismissEmbedded ==
    /\ embedded.mounted
    /\ embedded.targetElement # 0
    /\ TornDown

\* a page with an EmbeddedStep not yet rendered
InitEmbedded ==
    /\ HookInit
    /\ RendererIdle
    /\ RestIdle
    /\ PositionIdle
    /\ FindIdle
    /\ PickerIdle
    /\ BodyIdle
    /\ dom \in [Targets -> NodeSeqs(MaxChildren)]
    /\ domOriginal = dom
    /\ embedded = NoEmbedded

NextEmbedded ==
    \/ \E t \in {0} \cup Targets, p \in EmbeddedPositions : MountEmbedded(t, p)
    \/ \E t \in {0} \cup Targets : ChangeEmbeddedStep(t)
    \/ \E p \in EmbeddedPositions : ChangeEmbeddedPosition(p)
    \/ UnmountEmbedded
    \/ DismissEmbedded

SpecEmbedded == InitEmbedded /\ [][NextEmbedded]_vars

\* ---------------------------------------------------------------- positioning

\* TooltipPosition sides, and the preferredPosition values
Sides == {"top", "bottom", "left", "right"}

\* window.innerWidth / innerHeight / scrollX / scrollY
Viewports ==
    { [width |-> 100, height |-> 100, scrollX |-> 0, scrollY |-> 0],
      [width |-> 100, height |-> 100, scrollX |-> 30, scrollY |-> 50],
      [width |-> 40, height |-> 60, scrollX |-> 0, scrollY |-> 30] }

\* element.getBoundingClientRect() of the target, in viewport coordinates:
\* on screen, at an edge, partly and wholly off screen, of zero size
TargetEdges == {0 - 40, 0, 40, 90}
TargetRects ==
    [top : TargetEdges, left : TargetEdges, width : {0, 20}, height : {20}]
    \cup [top : TargetEdges, left : TargetEdges, width : {0}, height : {0}]

\* PositionConfig.arrowSize (default 8)
ArrowSize == 8

\* x / 2 (every halved quantity of the inputs above is even)
Half(x) == x \div 2

Max(a, b) == IF a >= b THEN a ELSE b
Min(a, b) == IF a <= b THEN a ELSE b

getElementRect(rect, viewport) ==
    [top |-> rect.top + viewport.scrollY,
     left |-> rect.left + viewport.scrollX,
     right |-> rect.left + rect.width + viewport.scrollX,
     bottom |-> rect.top + rect.height + viewport.scrollY,
     width |-> rect.width,
     height |-> rect.height]

hasSpaceForPosition(targetRect, tooltipWidth, tooltipHeight, position, padding, viewport) ==
    CASE position = "top" ->
           /\ targetRect.top - viewport.scrollY - tooltipHeight - padding > 0
           /\ targetRect.left - viewport.scrollX + Half(targetRect.width)
                  - Half(tooltipWidth) > 0
           /\ targetRect.left - viewport.scrollX + Half(targetRect.width)
                  + Half(tooltipWidth) < viewport.width
      [] position = "bottom" ->
           /\ targetRect.bottom - viewport.scrollY + tooltipHeight + padding
                  < viewport.height
           /\ targetRect.left - viewport.scrollX + Half(targetRect.width)
                  - Half(tooltipWidth) > 0
           /\ targetRect.left - viewport.scrollX + Half(targetRect.width)
                  + Half(tooltipWidth) < viewport.width
      [] position = "left" ->
           /\ targetRect.left - viewport.scrollX - tooltipWidth - padding > 0
           /\ targetRect.top - viewport.scrollY + Half(targetRect.height)
                  - Half(tooltipHeight) > 0
           /\ targetRect.top - viewport.scrollY + Half(targetRect.height)
                  + Half(tooltipHeight) < viewport.height
      [] position = "right" ->
           /\ targetRect.right - viewport.scrollX + tooltipWidth + padding
                  < viewport.width
           /\ targetRect.top - viewport.scrollY + Half(targetRect.height)
                  - Half(tooltipHeight) > 0
           /\ targetRect.top - viewport.scrollY + Half(targetRect.height)
                  + Half(tooltipHeight) < viewport.height
      [] OTHER -> TRUE

\* mutant: top is preferred to bottom
positionOrder_TopFirst == <<"top", "bottom", "right", "left">>

\* Preference order: bottom, top, right, left
positionOrder == <<"bottom", "top", "right", "left">>

RECURSIVE FirstWithSpace(_, _, _, _, _, _)
FirstWithSpace(order, targetRect, tooltipWidth, tooltipHeight, padding, viewport) ==
    IF order = << >> THEN "bottom"
    ELSE IF hasSpaceForPosition(targetRect, tooltipWidth, tooltipHeight,
                                Head(order), padding, viewport)
         THEN Head(order)
         ELSE FirstWithSpace(Tail(order), targetRect, tooltipWidth,
                             tooltipHeight, padding, viewport)

findBestPosition(targetRect, tooltipWidth, tooltipHeight, padding, viewport) ==
    FirstWithSpace(positionOrder, targetRect, tooltipWidth, tooltipHeight,
                   padding, viewport)

\* mutant: a side without room flips to the next side clockwise
opposites_Clockwise(side) ==
    CASE side = "top" -> "right"
      [] side = "right" -> "bottom"
      [] side = "bottom" -> "left"
      [] side = "left" -> "top"

opposites(side) ==
    CASE side = "top" -> "bottom"
      [] side = "bottom" -> "top"
      [] side = "left" -> "right"
      [] side = "right" -> "left"

\* mutant: the lower bound is not applied
Clamp_NoMin(min, max, value) == Min(max, value)

\* Math.max(min, Math.min(max, value))
Clamp(min, max, value) == Max(min, Min(max, value))

\* Determine final position
finalPosition(targetRect, tooltipWidth, tooltipHeight, preferredPosition, padding, viewport) ==
    IF preferredPosition = "auto"
    THEN findBestPosition(targetRect, tooltipWidth, tooltipHeight, padding, viewport)
    ELSE IF /\ ~hasSpaceForPosition(targetRect, tooltipWidth, tooltipHeight,
                                    preferredPosition, padding, viewport)
            /\ hasSpaceForPosition(targetRect, tooltipWidth, tooltipHeight,
                                   opposites(preferredPosition), padding, viewport)
         THEN opposites(preferredPosition)
         ELSE preferredPosition

calculatePosition(rect, tooltipWidth, tooltipHeight, config, viewport) ==
    LET targetRect == getElementRect(rect, viewport)
        padding == config.containerPadding
        offset == config.offset
        final == finalPosition(targetRect, tooltipWidth, tooltipHeight,
                               config.preferredPosition, padding, viewport)
        gap == ArrowSize + 4
        top == CASE final = "top" ->
                      targetRect.top - tooltipHeight - gap + offset.y
                 [] final = "bottom" -> targetRect.bottom + gap + offset.y
                 [] OTHER -> targetRect.top + Half(targetRect.height)
                                 - Half(tooltipHeight) + offset.y
        left == CASE final = "left" ->
                       targetRect.left - tooltipWidth - gap + offset.x
                  [] final = "right" -> targetRect.right + gap + offset.x
                  [] OTHER -> targetRect.left + Half(targetRect.width)
                                  - Half(tooltipWidth) + offset.x
        arrowLeft == CASE final = "left" -> tooltipWidth
                       [] final = "right" -> 0 - ArrowSize
                       [] OTHER -> Half(tooltipWidth) - Half(ArrowSize)
        arrowTop == CASE final = "top" -> tooltipHeight
                      [] final = "bottom" -> 0 - ArrowSize
                      [] OTHER -> Half(tooltipHeight) - Half(ArrowSize)
        minLeft == viewport.scrollX + padding
        maxLeft == viewport.scrollX + viewport.width - tooltipWidth - padding
        minTop == viewport.scrollY + padding
        maxTop == viewport.scrollY + viewport.height - tooltipHeight - padding
        clampedLeft == Clamp(minLeft, maxLeft, left)
        clampedTop == Clamp(minTop, maxTop, top)
    IN [top |-> clampedTop,
        left |-> clampedLeft,
        placement |-> final,
        arrowPosition |->
            [left |-> IF final \in {"top", "bottom"}
                      THEN arrowLeft + (left - clampedLeft) ELSE arrowLeft,
             top |-> IF final \in {"left", "right"}
                     THEN arrowTop + (top - clampedTop) ELSE arrowTop]]

\* the arguments of a calculatePosition call and the window it reads: the
\* target's rect, the measured size of the floating element, the
\* PositionConfig (containerPadding defaults to 10)
PositionArgs ==
    [rect : TargetRects,
     tooltip : { [width |-> 20, height |-> 20], [width |-> 60, height |-> 20],
                 [width |-> 20, height |-> 60] },
     config : [preferredPosition : Sides \cup {"auto"},
               offset : { [x |-> 0, y |-> 0], [x |-> 10, y |-> 0 - 10] },
               containerPadding : {0, 10}],
     viewport : Viewports]

\* TooltipStep.updatePosition: the target and the tooltip are measured and
\* calculatePosition is called
updatePosition(args) ==
    /\ positionCall = NoCall
    /\ positionCall' =
           [made |-> TRUE, args |-> args,
            result |-> calculatePosition(args.rect, args.tooltip.width,
                                         args.tooltip.height, args.config,
                                         args.viewport)]
    /\ UNCHANGED <<hookVars, rendererVars, restVars,
                   embeddedVars, findCall, picker, bodyCall>>

\* a scroll or resize event with the tooltip shown: updatePosition runs
\* again, reading the new window
repositioned(viewport) ==
    /\ positionCall.made
    /\ viewport # positionCall.args.viewport
    /\ LET args == [positionCall.args EXCEPT !.viewport = viewport]
       IN positionCall' =
              [made |-> TRUE, args |-> args,
               result |-> calculatePosition(args.rect, args.tooltip.width,
                                            args.tooltip.height, args.config,
                                            args.viewport)]
    /\ UNCHANGED <<hookVars, rendererVars, restVars,
                   embeddedVars, findCall, picker, bodyCall>>

InitPosition ==
    /\ HookInit
    /\ RendererIdle
    /\ RestIdle
    /\ EmbeddedIdle
    /\ PositionIdle
    /\ FindIdle
    /\ PickerIdle
    /\ BodyIdle

NextPosition ==
    \/ \E args \in PositionArgs : updatePosition(args)
    \/ \E viewport \in Viewports : repositioned(viewport)

SpecPosition == InitPosition /\ [][NextPosition]_vars

\* ---------------------------------------------------------------- findElement

\* Attribute values are opaque strings; "" is an attribute that is not set.
\* DQuoteId stands for a data-testid value that contains a double quote.
DQuoteId == "a_dquote_b"
HasDQuote(value) == value = DQuoteId

TestIdValues == {"save", DQuoteId}

\* An element of the document: data-testid, id, a class, its own text.
Elements ==
    [testId : TestIdValues \cup {""}, id : {"main", ""},
     cls : {"btn", ""}, text : {"Save", ""}]

RECURSIVE ElementSeqs(_)
ElementSeqs(n) ==
    IF n = 0 THEN {<< >>}
    ELSE {<< >>} \cup { <<k>> \o t : k \in Elements, t \in ElementSeqs(n - 1) }

\* the document: its elements in document order (an element is named by
\* its place in the order; 0 names no element)
Documents == ElementSeqs(MaxElements)

\* A selector or XPath expression, by what it matches: an attribute value
\* (by: testid, id, class), nothing that parses (invalid), or absent (none).
NoSelector == [by |-> "none", value |-> ""]
InvalidSelector == [by |-> "invalid", value |-> ""]
Selector(by, value) == [by |-> by, value |-> value]

\* `[data-testid="${testId}"]`: the quote of a value that holds one ends the
\* attribute string early and what follows does not parse
TestIdSelector(testId) ==
    IF HasDQuote(testId) THEN InvalidSelector ELSE Selector("testid", testId)

\* `#${CSS.escape(element.id)}`
IdSelector(id) == Selector("id", id)

Matches(element, selector) ==
    CASE selector.by = "testid" -> element.testId = selector.value
      [] selector.by = "id" -> element.id = selector.value
      [] selector.by = "class" -> element.cls = selector.value
      [] OTHER -> FALSE

\* the outcome of a lookup: an element, null, or an exception thrown
Found(i) == [kind |-> IF i = 0 THEN "null" ELSE "element", el |-> i]
Thrown == [kind |-> "throws", el |-> 0]

\* the first, in document order, of the elements at the indices hits (0: none)
FirstIndex(hits) ==
    IF hits = {} THEN 0 ELSE CHOOSE i \in hits : \A j \in hits : i <= j

\* document.querySelector(selector); document.evaluate(xpath, ...
\* FIRST_ORDERED_NODE_TYPE).singleNodeValue: both throw on what does not parse
querySelector(document, selector) ==
    IF selector.by = "invalid" THEN Thrown
    ELSE Found(FirstIndex({i \in 1..Len(document) : Matches(document[i], selector)}))

\* document.querySelectorAll(selector): the matching elements
querySelectorAll(document, selector) ==
    {i \in 1..Len(document) : Matches(document[i], selector)}

\* the tree walk over text nodes: the parent of the first one that includes text
FirstWithText(document, text) ==
    Found(FirstIndex({i \in 1..Len(document) : document[i].text = text}))

\* try { ... } catch { }: an exception counts as no match
Caught(outcome) == IF outcome.kind = "throws" THEN Found(0) ELSE outcome

\* the strategies a descriptor can hold; null: the descriptor itself is null
Descriptors ==
    [null : {FALSE},
     css : {NoSelector, InvalidSelector, Selector("class", "btn"), Selector("id", "main")},
     testId : TestIdValues \cup {""},
     xpath : {NoSelector, InvalidSelector, Selector("id", "main")},
     text : {"Save", ""}]
    \cup {[null |-> TRUE, css |-> NoSelector, testId |-> "", xpath |-> NoSelector,
           text |-> ""]}

NoDescriptor ==
    [null |-> FALSE, css |-> NoSelector, testId |-> "", xpath |-> NoSelector,
     text |-> ""]

\* findElement: css, then testId, then xpath, then text; the css and xpath
\* lookups are inside try / catch, the testId lookup is not
findElement(document, selectorStrategy) ==
    LET css == IF selectorStrategy.css.by # "none"
               THEN Caught(querySelector(document, selectorStrategy.css))
               ELSE Found(0)
        testId == IF selectorStrategy.testId # ""
                  THEN querySelector(document, TestIdSelector(selectorStrategy.testId))
                  ELSE Found(0)
        xpath == IF selectorStrategy.xpath.by # "none"
                 THEN Caught(querySelector(document, selectorStrategy.xpath))
                 ELSE Found(0)
        text == IF selectorStrategy.text # ""
                THEN FirstWithText(document, selectorStrategy.text)
                ELSE Found(0)
    IN IF selectorStrategy.null THEN Found(0)
       ELSE IF css.kind = "element" THEN css
       ELSE IF testId.kind # "null" THEN testId
       ELSE IF xpath.kind = "element" THEN xpath
       ELSE text

\* the element carries a data-testid or an id: generateSelector returns from
\* one of its first two branches
Keyed(element) == element.testId # "" \/ element.id # ""

\* generateSelector, for an element with a data-testid or an id (the CSS
\* path built for other elements is not modelled)
generateSelector(element) ==
    IF element.testId # ""
    THEN [NoDescriptor EXCEPT !.testId = element.testId,
                              !.css = TestIdSelector(element.testId)]
    ELSE [NoDescriptor EXCEPT !.css = IdSelector(element.id)]

\* a presenter resolves the selector_strategy of its step
resolve(selectorStrategy) ==
    /\ findCall' =
           [made |-> TRUE, document |-> findCall.document, op |-> "findElement",
            descriptor |-> selectorStrategy, el |-> 0,
            result |-> findElement(findCall.document, selectorStrategy),
            described |-> NoDescriptor]
    /\ UNCHANGED <<hookVars, rendererVars, restVars,
                   embeddedVars, positionCall, picker, bodyCall>>

\* element el is described, the descriptor is resolved, and the element found
\* (if one is, and none of the calls throws) is described again
describeAndResolve(el) ==
    /\ el \in 1..Len(findCall.document)
    /\ Keyed(findCall.document[el])
    /\ LET descriptor == generateSelector(findCall.document[el])
           result == findElement(findCall.document, descriptor)
       IN findCall' =
              [made |-> TRUE, document |-> findCall.document, op |-> "roundTrip",
               descriptor |-> descriptor, el |-> el, result |-> result,
               described |-> IF result.kind = "element"
                             THEN generateSelector(findCall.document[result.el])
                             ELSE NoDescriptor]
    /\ UNCHANGED <<hookVars, rendererVars, restVars,
                   embeddedVars, positionCall, picker, bodyCall>>

\* a page, before any lookup
InitFind ==
    /\ HookInit
    /\ RendererIdle
    /\ RestIdle
    /\ EmbeddedIdle
    /\ PositionIdle
    /\ PickerIdle
    /\ BodyIdle
    /\ findCall \in { [made |-> FALSE, document |-> d] : d \in Documents }

NextFind ==
    \/ \E d \in Descriptors : resolve(d)
    \/ \E el \in 1..MaxElements : describeAndResolve(el)

SpecFind == InitFind /\ [][NextFind]_vars

\* ---------------------------------------------------------------- ElementSelector

\* the page under the ElementSelector: the elements a pointer position can
\* name as the target (0: only the overlay, the ignored builder UI, body or
\* html lie under the pointer)
PickPage ==
    << [testId |-> "save", id |-> "", cls |-> "btn", text |-> "Save"],
       [testId |-> "", id |-> "main", cls |-> "", text |-> ""] >>


NoEvent == [type |-> "none", key |-> ""]

\* ElementSelector as constructed, with isActive = false from the builder
PickerInit ==
    [isActive |-> FALSE, hoveredElement |-> 0, generatedSelector |-> NoDescriptor,
     onSelectCalls |-> << >>, lastEvent |-> NoEvent]

\* the builder's Select button: setIsSelectingElement(true)
activate ==
    /\ ~picker.isActive
    /\ picker' = [picker EXCEPT !.isActive = TRUE,
                                !.lastEvent = [type |-> "activate", key |-> ""]]
    /\ UNCHANGED <<hookVars, rendererVars, restVars,
                   embeddedVars, positionCall, findCall, bodyCall>>

\* handleMouseMove, registered while isActive
handleMouseMove(target) ==
    /\ picker' =
           [(IF picker.isActive /\ target # picker.hoveredElement
             THEN [picker EXCEPT
                      !.hoveredElement = target,
                      !.generatedSelector =
                          IF target # 0 THEN generateSelector(PickPage[target])
                                        ELSE NoDescriptor]
             ELSE picker)
            EXCEPT !.lastEvent = [type |-> "mousemove", key |-> ""]]
    /\ UNCHANGED <<hookVars, rendererVars, restVars,
                   embeddedVars, positionCall, findCall, bodyCall>>

\* handleClick: if (hoveredElement && generatedSelector) onSelect(...)
ClickReports(p) == p.hoveredElement # 0 /\ p.generatedSelector # NoDescriptor

\* onSelect(generatedSelector, hoveredElement), received by
\* GuideBuilderModal.handleElementSelect: setIsSelectingElement(false)
Selected(p) ==
    [p EXCEPT !.onSelectCalls =
                  Append(@, [selector |-> p.generatedSelector,
                             element |-> p.hoveredElement]),
              !.isActive = FALSE]

\* onCancel: () => setIsSelectingElement(false)
Cancelled(p) == [p EXCEPT !.isActive = FALSE]

\* a click on the page: it lands on the overlay when the overlay is rendered
click ==
    /\ picker.isActive /\ ClickReports(picker)
           => Len(picker.onSelectCalls) < MaxPicks
    /\ picker' =
           [(IF picker.isActive /\ ClickReports(picker)
             THEN Selected(picker) ELSE picker)
            EXCEPT !.lastEvent = [type |-> "click", key |-> ""]]
    /\ UNCHANGED <<hookVars, rendererVars, restVars,
                   embeddedVars, positionCall, findCall, bodyCall>>

\* mutant: the click on Cancel reaches the overlay's onClick
CancelStopsPropagation_Missing == FALSE

\* the Cancel button: e.stopPropagation(); onCancel()
CancelStopsPropagation == TRUE

\* a click on the Cancel control, rendered while isActive
clickCancel ==
    /\ picker.isActive
    /\ (~CancelStopsPropagation /\ ClickReports(picker))
           => Len(picker.onSelectCalls) < MaxPicks
    /\ picker' =
           [Cancelled(IF ~CancelStopsPropagation /\ ClickReports(picker)
                      THEN Selected(picker) ELSE picker)
            EXCEPT !.lastEvent = [type |-> "cancel", key |-> ""]]
    /\ UNCHANGED <<hookVars, rendererVars, restVars,
                   embeddedVars, positionCall, findCall, bodyCall>>

\* handleKeyDown, registered while isActive
handleKeyDown(key) ==
    /\ picker' =
           [(IF picker.isActive /\ key = "Escape"
             THEN Cancelled(picker) ELSE picker)
            EXCEPT !.lastEvent = [type |-> "keydown", key |-> key]]
    /\ UNCHANGED <<hookVars, rendererVars, restVars,
                   embeddedVars, positionCall, findCall, bodyCall>>

InitPicker ==
    /\ HookInit
    /\ RendererIdle
    /\ RestIdle
    /\ EmbeddedIdle
    /\ PositionIdle
    /\ FindIdle
    /\ BodyIdle
    /\ picker = PickerInit

NextPicker ==
    \/ activate
    \/ \E target \in 0..Len(PickPage) : handleMouseMove(target)
    \/ click
    \/ clickCancel
    \/ \E key \in {"Escape", "Enter"} : handleKeyDown(key)

SpecPicker == InitPicker /\ [][NextPicker]_vars

\* ---------------------------------------------------------------- StepContent

\* const allowedTags (those of the list that occur in the bodies below)
allowedTags == {"b", "a"}

\* const allowedAttrs
allowedAttrs == {"href", "target", "rel", "class", "style"}

\* An attribute value, by how it starts: PaddedJs stands for a value such as
\* " JavaScript:x", which is javascript: once lower-cased and trimmed.
PaddedJs == "_JavaScript:"
Attr(name, value) == [name |-> name, value |-> value]

\* attr.value.toLowerCase().trim()
LowerTrimmed(value) == IF value = PaddedJs THEN "javascript:" ELSE value

\* name.startsWith('on')
StartsWithOn(name) == name \in {"onclick", "onerror"}

\* value.startsWith('javascript:') || value.startsWith('data:')
StartsWithScheme(value) == value \in {"javascript:", "data:"}

\* the attribute lists an element of a body can carry
AttrSets ==
    { {},
      {Attr("onclick", "x"), Attr("class", "c")},
      {Attr("href", "javascript:")},
      {Attr("href", "https:"), Attr("title", "t"), Attr("target", "_self")},
      {Attr("href", PaddedJs), Attr("src", "data:"), Attr("onerror", "x")} }

\* A node of parsed markup: a text node, or an element (of an allowed tag,
\* an img or a script) with its attributes and children.
TextNode == [tag |-> "#text", attrs |-> {}, kids |-> << >>]

RECURSIVE BodyNodes(_)
BodyNodes(depth) ==
    {TextNode} \cup
    { [tag |-> t, attrs |-> a, kids |-> k] :
        t \in allowedTags \cup {"img", "script"}, a \in AttrSets,
        k \in {<< >>} \cup (IF depth = 0 THEN {}
                            ELSE { <<n>> : n \in BodyNodes(depth - 1) }) }

\* A start tag that the string ends in, its closing > missing
\* (tag "": the string does not end in one)
NoTag == [tag |-> "", attrs |-> {}]

\* A body string, by what it parses to: its nodes, and the unterminated
\* start tag it ends in, if any.
Bodies(depth) ==
    { [nodes |-> ns, open |-> o] :
        ns \in {<< >>} \cup { <<n>> : n \in BodyNodes(depth) }
               \cup { <<n, m>> : n \in BodyNodes(depth), m \in BodyNodes(0) },
        o \in { NoTag,
                 [tag |-> "img", attrs |-> {Attr("src", "x"), Attr("onerror", "x")}],
                 [tag |-> "b", attrs |-> {}] } }

RECURSIVE HasText(_)
\* el.textContent is not empty, the script elements having been removed
HasText(nodes) ==
    \E i \in 1..Len(nodes) :
        \/ nodes[i].tag = "#text"
        \/ nodes[i].tag # "script" /\ HasText(nodes[i].kids)

\* body.includes('<'): the string holds a tag
IncludesLt(body) ==
    \/ \E i \in 1..Len(body.nodes) : body.nodes[i].tag # "#text"
    \/ body.open # NoTag

\* the attributes left on an allowed element, and those set on a link
CleanAttrs(tag, attrs) ==
    LET kept == { a \in attrs :
                    /\ ~StartsWithOn(a.name)
                    /\ ~(a.name \in {"href", "src"}
                             /\ StartsWithScheme(LowerTrimmed(a.value)))
                    /\ a.name \in allowedAttrs }
    IN IF tag = "a"
       THEN { a \in kept : a.name \notin {"rel", "target"} }
                \cup {Attr("rel", "noopener noreferrer"), Attr("target", "_blank")}
       ELSE kept

RECURSIVE Sanitized(_)
\* the DOM pass: scripts removed, every other element outside allowedTags
\* replaced by a text node of its textContent, the attributes of the rest
\* cleaned
Sanitized(nodes) ==
    IF nodes = << >> THEN << >>
    ELSE LET n == Head(nodes)
             first ==
                 CASE n.tag = "#text" -> <<n>>
                   [] n.tag = "script" -> << >>
                   [] n.tag \notin allowedTags ->
                        IF HasText(n.kids) THEN <<TextNode>> ELSE << >>
                   [] OTHER ->
                        <<[tag |-> n.tag, attrs |-> CleanAttrs(n.tag, n.attrs),
                           kids |-> Sanitized(n.kids)]>>
         IN first \o Sanitized(Tail(nodes))

RECURSIVE TextOnly(_)
\* html.replace(/<[^>]*>/g, ''): every tag that has its > is deleted, the
\* text between the tags stays
TextOnly(nodes) ==
    IF nodes = << >> THEN << >>
    ELSE (IF Head(nodes).tag = "#text" THEN <<TextNode>>
          ELSE TextOnly(Head(nodes).kids))
         \o TextOnly(Tail(nodes))

\* sanitizeHTML: the string returned, by what it parses to. In the browser
\* temp.innerHTML = html drops a start tag cut short by the end of the
\* string; on the server the regular expression does not match it (it has no
\* >) and the string still ends in it.
sanitizeHTML(html, environment) ==
    IF environment = "server"
    THEN [nodes |-> TextOnly(html.nodes), open |-> html.open]
    ELSE [nodes |-> Sanitized(html.nodes), open |-> NoTag]

RECURSIVE ElementsOf(_)
\* the elements of the nodes, at every depth, as [tag, attrs]
ElementsOf(nodes) ==
    IF nodes = << >> THEN {}
    ELSE (IF Head(nodes).tag = "#text" THEN {}
          ELSE {[tag |-> Head(nodes).tag, attrs |-> Head(nodes).attrs]}
                   \cup ElementsOf(Head(nodes).kids))
         \cup ElementsOf(Tail(nodes))

\* The elements the markup makes inside the <div> it is written into. Set
\* as innerHTML in the browser, a start tag cut short is dropped; written by
\* the server into the HTML of the page, it is completed by the > of the
\* </div> that follows and makes an element.
ElementsInPage(markup, environment) ==
    ElementsOf(markup.nodes)
    \cup (IF environment = "server" /\ markup.open # NoTag THEN {markup.open} ELSE {})

\* StepContent renders the body it was given: dangerouslySetInnerHTML with
\* the sanitized markup if body.includes('<'), the string as a text child
\* otherwise
StepContent ==
    /\ ~bodyCall.made
    /\ bodyCall' =
           [made |-> TRUE, body |-> bodyCall.body,
            environment |-> bodyCall.environment,
            asHTML |-> IncludesLt(bodyCall.body),
            elements |-> IF IncludesLt(bodyCall.body)
                         THEN ElementsInPage(
                                  sanitizeHTML(bodyCall.body, bodyCall.environment),
                                  bodyCall.environment)
                         ELSE {}]
    /\ UNCHANGED <<hookVars, rendererVars, restVars,
                   embeddedVars, positionCall, findCall, picker>>

\* the step's body and where the component renders are the inputs
InitBody ==
    /\ HookInit
    /\ RendererIdle
    /\ RestIdle
    /\ EmbeddedIdle
    /\ PositionIdle
    /\ FindIdle
    /\ PickerIdle
    /\ bodyCall \in { [made |-> FALSE, body |-> body, environment |-> environment] :
                        body \in Bodies(MaxNesting),
                        \* typeof document === 'undefined' on the server
                        environment \in {"browser", "server"} }

NextBody == StepContent

SpecBody == InitBody /\ [][NextBody]_vars

\* ---------------------------------------------------------------- listeners

\* A window listener: addEventListener(type, fn, capture). fn is the identity
\* of the callback (updatePosition, updateBeaconPosition, updateClipPath),
\* which useCallback renews when a dependency changes.
Listener(type, fn, capture) == [type |-> type, fn |-> fn, capture |-> capture]

\* window.removeEventListener(type, fn, capture) removes the listener
\* registered with the same type, callback and capture flag
removeEventListener(listeners, type, fn, capture) ==
    listeners \ {Listener(type, fn, capture)}

\* The body of the presenter's listener effect, run with the callback p.fn.
\* TooltipStep: setTimeout(updatePosition, 10) and both listeners.
\* HotspotStep: if (isExpanded) setTimeout(updatePopoverPosition, 10), and
\* both listeners. Backdrop: if (!visible) return; both listeners.
\* (flag: isExpanded of a HotspotStep, visible of a Backdrop)
listenerEffect(p) ==
    IF p.kind = "backdrop" /\ ~p.flag THEN p
    ELSE [p EXCEPT
            !.listeners = @ \cup {Listener("scroll", p.fn, TRUE),
                                  Listener("resize", p.fn, FALSE)},
            !.timers = CASE p.kind = "tooltip" -> 1
                         [] p.kind = "hotspot" /\ p.flag -> @ + 1
                         [] OTHER -> @]

\* The function the effect returned. TooltipStep: clearTimeout(timer) and
\* both listeners removed. HotspotStep: both listeners removed. Backdrop:
\* both removed, if the effect got past its early return.
listenerCleanup(p) ==
    IF p.kind = "backdrop" /\ ~p.flag THEN p
    ELSE [p EXCEPT
            !.listeners =
                removeEventListener(
                    removeEventListener(@, "scroll", p.fn, TRUE),
                    "resize", p.fn, FALSE),
            !.timers = IF p.kind = "tooltip" THEN 0 ELSE @]

\* a presenter mounts: a HotspotStep collapsed, a Backdrop visible or not
mountPresenter(kind, visible) ==
    /\ ~presenter.mounted
    /\ presenter.fn < MaxRenders
    /\ presenter' =
           listenerEffect([presenter EXCEPT
                              !.kind = kind, !.mounted = TRUE,
                              !.flag = kind = "backdrop" /\ visible,
                              !.fn = @ + 1])
    /\ UNCHANGED <<hookVars, rendererVars, embeddedVars, positionCall, findCall,
                   picker, bodyCall, request, captured>>

\* a dependency of the callback changes (the target element is found, a
\* prop changes): the effect is cleaned up and run with the new callback
reregister ==
    /\ presenter.mounted
    /\ presenter.fn < MaxRenders
    /\ presenter' =
           listenerEffect([listenerCleanup(presenter) EXCEPT !.fn = @ + 1])
    /\ UNCHANGED <<hookVars, rendererVars, embeddedVars, positionCall, findCall,
                   picker, bodyCall, request, captured>>

\* isExpanded of a HotspotStep or visible of a Backdrop changes: a dependency
\* of the effect, not of the callback
toggle ==
    /\ presenter.mounted
    /\ presenter.kind \in {"hotspot", "backdrop"}
    /\ presenter.timers < MaxRenders
    /\ presenter' =
           listenerEffect([listenerCleanup(presenter) EXCEPT !.flag = ~@])
    /\ UNCHANGED <<hookVars, rendererVars, embeddedVars, positionCall, findCall,
                   picker, bodyCall, request, captured>>

\* a 10 ms positioning timeout fires
positionTimerFires ==
    /\ presenter.timers > 0
    /\ presenter' = [presenter EXCEPT !.timers = @ - 1]
    /\ UNCHANGED <<hookVars, rendererVars, embeddedVars, positionCall, findCall,
                   picker, bodyCall, request, captured>>

\* the presenter unmounts: React runs the cleanup of its effects
unmountPresenter ==
    /\ presenter.mounted
    /\ presenter' = [listenerCleanup(presenter) EXCEPT !.mounted = FALSE]
    /\ UNCHANGED <<hookVars, rendererVars, embeddedVars, positionCall, findCall,
                   picker, bodyCall, request, captured>>

InitListeners ==
    /\ HookInit
    /\ RendererIdle
    /\ EmbeddedIdle
    /\ PositionIdle
    /\ FindIdle
    /\ PickerIdle
    /\ BodyIdle
    /\ request = NoCall
    /\ captured = NoCall
    /\ presenter = [made |-> TRUE, kind |-> "none", mounted |-> FALSE,
                    flag |-> FALSE, fn |-> 0, listeners |-> {}, timers |-> 0]

NextListeners ==
    \/ \E kind \in {"tooltip", "hotspot", "backdrop"}, visible \in BOOLEAN :
           mountPresenter(kind, visible)
    \/ reregister
    \/ toggle
    \/ positionTimerFires
    \/ unmountPresenter

SpecListeners == InitListeners /\ [][NextListeners]_vars

\* ---------------------------------------------------------------- CensusClient

\* const maxRetries = 1
maxRetries == 1

\* finally { clearTimeout(timeoutId) } of the attempt r.attempt
Finally(r) == [r EXCEPT !.timers = @ \ {r.attempt}]

\* the promise of request settles: it returns a value, or throws
Settled(r, kind, status) ==
    [Finally(r) EXCEPT !.pc = "done",
                       !.outcome = [kind |-> kind, status |-> status]]

\* an attempt of the loop starts: the controller, the timeout, the fetch
Attempt(r, attempt) ==
    [r EXCEPT !.pc = "fetching", !.attempt = attempt,
              !.timers = @ \cup {attempt}, !.fetches = @ + 1]

\* client.request(path, method, body) is called, the call before it settled
callRequest ==
    /\ request.pc \in {"idle", "done"}
    /\ request.calls < MaxCalls
    /\ request' =
           Attempt([request EXCEPT !.calls = @ + 1, !.fetches = 0,
                                   !.responses = << >>,
                                   !.outcome = [kind |-> "none", status |-> 0]],
                   0)
    /\ UNCHANGED <<hookVars, rendererVars, embeddedVars, positionCall, findCall,
                   picker, bodyCall, presenter, captured>>

\* fetch resolves with a response: response.ok returns response.json()
\* without awaiting it; a 5xx is retried while attempt < maxRetries (await
\* of the delay, then continue); any other status reads the error body.
\* responses: what each fetch attempt gave.
respond(status) ==
    /\ request.pc = "fetching"
    /\ LET r == [request EXCEPT !.responses =
                                       Append(@, [kind |-> "response",
                                                  status |-> status])]
       IN request' =
              CASE status >= 200 /\ status < 300 ->
                     [Finally(r) EXCEPT !.pc = "parsing"]
                [] status >= 500 /\ request.attempt < maxRetries ->
                     [Finally(r) EXCEPT !.pc = "backoff"]
                [] OTHER -> [r EXCEPT !.pc = "errorBody"]
    /\ UNCHANGED <<hookVars, rendererVars, embeddedVars, positionCall, findCall,
                   picker, bodyCall, presenter, captured>>

\* fetch rejects, with a network error or because the timeout aborted it:
\* catch (err), where err has no 'error' property
fetchRejects(aborted) ==
    /\ request.pc = "fetching"
    /\ LET r == [request EXCEPT
                    !.responses =
                        Append(@, [kind |-> IF aborted THEN "timeout" ELSE "network",
                                   status |-> 0]),
                    !.timers = IF aborted THEN @ \ {request.attempt} ELSE @]
       IN request' = IF request.attempt < maxRetries
                     THEN [Finally(r) EXCEPT !.pc = "backoff"]
                     ELSE Settled(r, "CensusError", 0)
    /\ UNCHANGED <<hookVars, rendererVars, embeddedVars, positionCall, findCall,
                   picker, bodyCall, presenter, captured>>

\* await response.json() of an error response settles (parsed or not, the
\* inner catch keeps the default message): throw { error, status }, which
\* the outer catch rethrows
errorBodySettles ==
    /\ request.pc = "errorBody"
    /\ request' = Settled(request, "CensusError",
                          request.responses[Len(request.responses)].status)
    /\ UNCHANGED <<hookVars, rendererVars, embeddedVars, positionCall, findCall,
                   picker, bodyCall, presenter, captured>>

\* the retry delay ends: the next iteration of the loop
backoffEnds ==
    /\ request.pc = "backoff"
    /\ request' = Attempt(request, request.attempt + 1)
    /\ UNCHANGED <<hookVars, rendererVars, embeddedVars, positionCall, findCall,
                   picker, bodyCall, presenter, captured>>

\* the promise returned by response.json() of a successful response settles
\* after request has left its try: the body parses, or it does not (an empty
\* body, a body that is not JSON) and json() rejects with a SyntaxError
bodySettles(parsed) ==
    /\ request.pc = "parsing"
    /\ request' = Settled(request, IF parsed THEN "returned" ELSE "SyntaxError",
                          request.responses[Len(request.responses)].status)
    /\ UNCHANGED <<hookVars, rendererVars, embeddedVars, positionCall, findCall,
                   picker, bodyCall, presenter, captured>>

InitRequest ==
    /\ HookInit
    /\ RendererIdle
    /\ EmbeddedIdle
    /\ PositionIdle
    /\ FindIdle
    /\ PickerIdle
    /\ BodyIdle
    /\ presenter = NoCall
    /\ captured = NoCall
    /\ request = [made |-> TRUE, calls |-> 0, pc |-> "idle", attempt |-> 0,
                  fetches |-> 0,
                  timers |-> {}, responses |-> << >>,
                  outcome |-> [kind |-> "none", status |-> 0]]

NextRequest ==
    \/ callRequest
    \/ \E status \in {200, 204, 404, 500, 503} : respond(status)
    \/ \E aborted \in BOOLEAN : fetchRejects(aborted)
    \/ errorBodySettles
    \/ backoffEnds
    \/ \E parsed \in BOOLEAN : bodySettles(parsed)

SpecRequest == InitRequest /\ [][NextRequest]_vars

\* ---------------------------------------------------------------- spec
\* the playback controls
Next ==
    \/ \E g \in HookGuides, s \in StepArgs : startGuide(g, s)
    \/ nextStep
    \/ prevStep
    \/ \E i \in StepArgs : goToStep(i)
    \/ dismiss
    \/ pause
    \/ resume

Spec == Init /\ [][Next]_vars

\* the playback controls interleaved with analytics calls
NextTrack ==
    \/ \E g \in HookGuides, s \in StepArgs : startGuide(g, s)
    \/ nextStep
    \/ prevStep
    \/ \E i \in StepArgs : goToStep(i)
    \/ dismiss
    \/ pause
    \/ resume
    \/ \E g \in TrackGuides, i \in TrackArgs, o \in TrackOutcomes : trackStepView(g, i, o)
    \/ \E g \in TrackGuides, o \in TrackOutcomes : trackGuideComplete(g, o)
    \/ \E g \in TrackGuides, i \in TrackArgs, o \in TrackOutcomes : trackGuideDismiss(g, i, o)

SpecTrack == Init /\ [][NextTrack]_vars

\* a mounted GuideRenderer and its user
NextRenderer ==
    \/ \E c \in ControlsShown : Click(c)
    \/ BannerTimerFires
    \/ Unmount

SpecRenderer == InitRenderer /\ [][NextRenderer]_vars

\* ================================================================ claims
TransitionOps == {"nextStep", "prevStep", "goToStep", "resume"}
TrackOps == {"trackStepView", "trackGuideComplete", "trackGuideDismiss"}

\* C1: whenever activeGuide is non-null, 0 <= currentStepIndex <
\* activeGuide.guide_steps.length (startGuide validates startStep into range).
C1_IndexInRange ==
    activeGuide # NoGuide => InRange(activeGuide, currentStepIndex)

\* C2: after startGuide(g, 0) on a guide of n >= 1 steps, k <= n-1 successive
\* nextStep calls leave g playing at index k; the n-th completes it
\* (activeGuide null, isPlaying false, g.id in completedGuideIds); the index
\* never exceeds n-1.
C2_AdvanceToCompletion ==
    (run.k >= 0 /\ StepsLength(run.guide) >= 1) =>
        /\ currentStepIndex <= StepsLength(run.guide) - 1
        /\ run.k <= StepsLength(run.guide) - 1 =>
               /\ activeGuide = run.guide
               /\ currentStepIndex = run.k
               /\ isPlaying
        /\ run.k = StepsLength(run.guide) =>
               /\ activeGuide = NoGuide
               /\ ~isPlaying
               /\ \E j \in 1..Len(completedGuideIds) :
                      completedGuideIds[j] = run.guide.id

C2_Witness ==
    /\ StepsLength(run.guide) >= 2
    /\ run.k = StepsLength(run.guide)
    /\ lastCall.op = "nextStep"

\* C3: prevStep at index 0, and goToStep(i) with i < 0 or i >= steps.length,
\* change none of activeGuide, currentStepIndex, isPlaying, completedGuideIds,
\* dismissedGuideIds.
C3_InvalidTransitionsNoOp ==
    [][/\ (lastCall'.op = "prevStep" /\ currentStepIndex = 0)
           => UNCHANGED hookState
       /\ (lastCall'.op = "goToStep" /\ ~InRange(activeGuide, lastCall'.arg))
           => UNCHANGED hookState]_vars

C3_Witness ==
    /\ lastCall.op = "goToStep"
    /\ activeGuide # NoGuide
    /\ StepsLength(activeGuide) >= 2
    /\ lastCall.arg = StepsLength(activeGuide)
    /\ currentStepIndex = 1

\* C4: dismiss with a guide active leaves activeGuide null and isPlaying
\* false, and from then until the next startGuide every nextStep and prevStep
\* changes nothing of the session state.
C4_DismissTerminal ==
    [][/\ (lastCall'.op = "dismiss" /\ activeGuide # NoGuide)
           => (activeGuide' = NoGuide /\ isPlaying' = FALSE /\ phase' = "Dismissed")
       /\ (phase = "Dismissed" /\ lastCall'.op \in {"nextStep", "prevStep"})
           => UNCHANGED hookState]_vars

C4_Witness ==
    /\ phase = "Dismissed"
    /\ lastCall.op = "prevStep"
    /\ \E j \in 1..Len(dismissedGuideIds) : dismissedGuideIds[j] = 2

\* C5: once the advance from the last step has completed a guide, nextStep,
\* prevStep, goToStep and resume leave activeGuide, currentStepIndex and
\* isPlaying unchanged; only startGuide plays again, at the index it is given.
C5_CompletedTerminal ==
    [][/\ (phase = "Completed" /\ lastCall'.op \in TransitionOps)
           => UNCHANGED <<activeGuide, currentStepIndex, isPlaying>>
       /\ (phase = "Completed" /\ lastCall'.op = "startGuide")
           => currentStepIndex' = lastCall'.arg]_vars

\* C6 (as claimed): a dismissal made while playing at index i leaves the
\* guide id recorded and the index i kept by useGuideRenderer.
C6_DismissKeepsIndex ==
    (lastCall.op = "dismiss" /\ lastCall.from # 0 /\ lastCall.inRange) =>
        /\ \E j \in 1..Len(dismissedGuideIds) : dismissedGuideIds[j] = lastCall.from
        /\ currentStepIndex = lastCall.at

\* C6 (amended): useGuideRenderer.dismiss with a guide active appends the
\* guide id to dismissedGuideIds and resets currentStepIndex to 0: the id is
\* recorded, the dismissal index is not kept.
C6_DismissRecordsIdOnly ==
    [][(lastCall'.op = "dismiss" /\ activeGuide # NoGuide)
           => /\ dismissedGuideIds' = Append(dismissedGuideIds, activeGuide.id)
              /\ currentStepIndex' = 0
              /\ UNCHANGED completedGuideIds]_vars

C6_Witness ==
    /\ lastCall.op = "dismiss"
    /\ lastCall.from = 2
    /\ lastCall.inRange
    /\ lastCall.at = 1
    /\ currentStepIndex = 0
    /\ dismissedGuideIds = <<2>>

\* C6 (GuideRenderer half): every call of the onDismiss prop carries the
\* guide and the step index of the render whose dismiss control was
\* activated: the current index for a direct dismiss, the index held by the
\* timeout for a BannerStep dismiss.
C6_RendererReportsIndex ==
    [][onDismissCalls' # onDismissCalls
           => \/ /\ lastClick'.calls = "onDismiss"
                 /\ onDismissCalls' =
                        Append(onDismissCalls,
                               [guide |-> guide.id, step |-> shownStepIndex])
              \/ /\ bannerTimers # << >>
                 /\ onDismissCalls' =
                        Append(onDismissCalls,
                               [guide |-> guide.id, step |-> Head(bannerTimers)])]_vars

\* C7: startGuide on a guide with zero steps completes it at once: no guide
\* is left active or playing and the guide id is in completedGuideIds.
C7_ZeroStepsCompletes ==
    (lastCall.op = "startGuide" /\ StepsLength(lastCall.guide) = 0) =>
        /\ activeGuide = NoGuide
        /\ ~isPlaying
        /\ \E j \in 1..Len(completedGuideIds) :
               completedGuideIds[j] = lastCall.guide.id

\* C8: startGuide(g2, s) while g1 is playing leaves g2 the active guide,
\* playing at index s, and adds nothing to completedGuideIds or
\* dismissedGuideIds.
C8_StartReplaces ==
    [][(lastCall'.op = "startGuide" /\ activeGuide # NoGuide /\ isPlaying)
           => /\ activeGuide' = lastCall'.guide
              /\ currentStepIndex' = lastCall'.arg
              /\ isPlaying' = TRUE
              /\ UNCHANGED <<completedGuideIds, dismissedGuideIds>>]_vars

C8_Witness ==
    /\ lastCall.op = "startGuide"
    /\ lastCall.from = 1
    /\ activeGuide.id = 2
    /\ currentStepIndex = 1

\* C9: the promise of trackStepView / trackGuideComplete / trackGuideDismiss
\* is never rejected, whether client.track resolves, rejects or never
\* settles, and an analytics call changes nothing of the session state.
C9_AnalyticsIsolated ==
    [][lastCall'.op \in TrackOps
           => /\ lastCall'.promise.state \in {"fulfilled", "pending"}
              /\ UNCHANGED hookState]_vars

C9_Witness ==
    /\ lastCall.op = "trackGuideDismiss"
    /\ lastCall.promise.outcome = "rejects"
    /\ lastCall.promise.state = "fulfilled"
    /\ activeGuide # NoGuide
    /\ isPlaying

\* C10: on a step without custom buttons, Back is offered only at an index
\* > 0 and calls onPrev; before the last step the primary control is Next
\* and calls onNext; on the last step it is Done (Got it on a banner), calls
\* the dismiss callback and nothing offered calls onNext; a click on Done
\* leaves the index on the last step and onComplete uncalled.
DefaultLabels == {"Back", "Next", "Done", "Got it"}

\* the offered controls with one of the given labels
Offered(labels) == {c \in ControlsShown : c.label \in labels}

C10_DefaultControls ==
    /\ (PresenterOpen /\ currentStep.buttons = {}) =>
          /\ \A c \in Offered({"Back"}) :
                 shownStepIndex > 0 /\ c.calls = "onPrev"
          /\ (shownStepIndex # StepsLength(guide) - 1) =>
                 /\ Offered({"Next"}) # {}
                 /\ \A c \in Offered({"Next"}) : c.calls = "onNext"
          /\ (shownStepIndex = StepsLength(guide) - 1) =>
                 /\ Offered({"Done", "Got it"}) # {}
                 /\ \A c \in Offered({"Done", "Got it"}) :
                        c.calls \in {"onDismiss", "bannerDismiss"}
                 /\ \A c \in ControlsShown : c.calls # "onNext"
    /\ (lastClick.label \in DefaultLabels) =>
          shownStepIndex <= StepsLength(guide) - 1
    /\ (lastClick.label \in {"Done", "Got it"}) =>
          /\ lastClick.at = StepsLength(guide) - 1
          /\ shownStepIndex = lastClick.at
          /\ onCompleteCalls = << >>
          /\ (~isActive \/ bannerTimers # << >>)

C10_Witness ==
    /\ lastClick.label = "Done"
    /\ StepsLength(guide) = 2
    /\ lastClick.at = 1
    /\ onDismissCalls = <<[guide |-> guide.id, step |-> 1]>>

\* C11: while GuideRenderer plays a step (of any type, with a selector that
\* resolves or not), the presenter offers a control that advances or
\* dismisses, directly or behind the hotspot beacon; an unresolved tooltip
\* shows the centered fallback with its buttons.
ProgressCalls == {"onNext", "onDismiss", "bannerDismiss", "beacon"}

C11_TransitionAvailable ==
    Rendered =>
        /\ \E c \in ControlsShown : c.calls \in ProgressCalls
        /\ TooltipFallback(currentStep) =>
               StepButtons(currentStep.buttons, shownStepIndex,
                           shownStepIndex = StepsLength(guide) - 1, "onDismiss")
                   \subseteq ControlsShown

\* the part of C11 that holds: every step that is shown offers a way on, and
\* the tooltip fallback keeps the default next/back controls
C11_ShownStepsProgress ==
    (Rendered /\ (currentStep.step_type \in {"hotspot", "embedded"}
                      => currentStep.resolves)) =>
        /\ \E c \in ControlsShown : c.calls \in ProgressCalls
        /\ (TooltipFallback(currentStep) /\ currentStep.buttons = {}) =>
               /\ (shownStepIndex > 0) => Control("Back", "onPrev") \in ControlsShown
               /\ (shownStepIndex < StepsLength(guide) - 1)
                      => Control("Next", "onNext") \in ControlsShown

\* C12: for each insertion mode and any target content, once an EmbeddedStep
\* is torn down (unmount, change of step or target, change of mode,
\* dismissal) the markup of the target it left equals the markup before the
\* mount and no inserted container remains; while mounted, only its current
\* target holds a container, inserted into the original content.
HoldsContainer(children) == \E i \in 1..Len(children) : children[i] = Container

HasRoom(side, r, t, p, v) ==
    LET fitsAcross == /\ 2 * r.left + r.width - t.width > 0
                      /\ 2 * r.left + r.width + t.width < 2 * v.width
        fitsAlong == /\ 2 * r.top + r.height - t.height > 0
                     /\ 2 * r.top + r.height + t.height < 2 * v.height
    IN CASE side = "bottom" ->
              v.height - (r.top + r.height) > t.height + p /\ fitsAcross
         [] side = "top" -> r.top > t.height + p /\ fitsAcross
         [] side = "right" ->
              v.width - (r.left + r.width) > t.width + p /\ fitsAlong
         [] side = "left" -> r.left > t.width + p /\ fitsAlong

\* the side has room in the last calculatePosition call
Room(side) ==
    HasRoom(side, positionCall.args.rect, positionCall.args.tooltip,
            positionCall.args.config.containerPadding, positionCall.args.viewport)

Preferred == positionCall.args.config.preferredPosition

GeometricOpposite(side) ==
    CASE side = "top" -> "bottom"
      [] side = "bottom" -> "top"
      [] side = "left" -> "right"
      [] side = "right" -> "left"

\* C13: with preferredPosition 'auto' the placement is the first of bottom,
\* top, right, left that has room, and bottom when none has.
C13_AutoPlacement ==
    (positionCall.made /\ Preferred = "auto") =>
        positionCall.result.placement =
            IF Room("bottom") THEN "bottom"
            ELSE IF Room("top") THEN "top"
            ELSE IF Room("right") THEN "right"
            ELSE IF Room("left") THEN "left"
            ELSE "bottom"

C13_Witness ==
    /\ positionCall.made
    /\ Preferred = "auto"
    /\ positionCall.result.placement = "left"
    /\ positionCall.args.viewport.scrollX > 0

\* C14: with an explicit side the placement is that side when it has room;
\* when it has none it is the geometric opposite if and only if the opposite
\* has room, and the requested side otherwise; never a side of the other axis.
C14_ExplicitPlacement ==
    (positionCall.made /\ Preferred \in Sides) =>
        /\ positionCall.result.placement \in {Preferred, GeometricOpposite(Preferred)}
        /\ Room(Preferred) => positionCall.result.placement = Preferred
        /\ ~Room(Preferred) =>
               (positionCall.result.placement = GeometricOpposite(Preferred)
                    <=> Room(GeometricOpposite(Preferred)))

C14_Witness ==
    /\ positionCall.made
    /\ Preferred = "bottom"
    /\ positionCall.args.rect.top + positionCall.args.rect.height
           >= positionCall.args.viewport.height - 10
    /\ positionCall.result.placement = "top"

\* C15: on each axis, when [scroll + padding, scroll + viewport size -
\* floating size - padding] is not empty, the returned top / left lies in it.
C15_Clamped ==
    positionCall.made =>
        LET a == positionCall.args
            p == a.config.containerPadding
            minLeft == a.viewport.scrollX + p
            maxLeft == a.viewport.scrollX + a.viewport.width - a.tooltip.width - p
            minTop == a.viewport.scrollY + p
            maxTop == a.viewport.scrollY + a.viewport.height - a.tooltip.height - p
        IN /\ minLeft <= maxLeft =>
                  (minLeft <= positionCall.result.left
                       /\ positionCall.result.left <= maxLeft)
           /\ minTop <= maxTop =>
                  (minTop <= positionCall.result.top
                       /\ positionCall.result.top <= maxTop)

\* a zero-size target wholly above and left of the viewport, clamped to
\* the lower bounds
C15_Witness ==
    /\ positionCall.made
    /\ positionCall.args.rect = [top |-> 0 - 40, left |-> 0 - 40, width |-> 0, height |-> 0]
    /\ positionCall.args.viewport.scrollY > 0
    /\ positionCall.args.config.containerPadding > 0
    /\ positionCall.result.top =
           positionCall.args.viewport.scrollY + positionCall.args.config.containerPadding
    /\ positionCall.result.left =
           positionCall.args.viewport.scrollX + positionCall.args.config.containerPadding

\* the strategy is set and finds an element of the document
StrategyMatch(document, d, strategy) ==
    CASE strategy = "testId" ->
           IF d.testId = "" THEN 0
           ELSE FirstIndex({i \in 1..Len(document) : document[i].testId = d.testId})
      [] strategy = "css" ->
           FirstIndex({i \in 1..Len(document) : Matches(document[i], d.css)})
      [] strategy = "xpath" ->
           FirstIndex({i \in 1..Len(document) : Matches(document[i], d.xpath)})
      [] strategy = "text" ->
           IF d.text = "" THEN 0
           ELSE FirstIndex({i \in 1..Len(document) : document[i].text = d.text})

\* every value of the descriptor parses
WellFormed(d) ==
    /\ d.css.by # "invalid"
    /\ d.xpath.by # "invalid"
    /\ ~HasDQuote(d.testId)

\* C16: findElement returns the match of the first of testId, css, xpath,
\* text (in that order) that is set and matches; the testId match when
\* testId and css match different elements.
C16_PriorityOrder ==
    (findCall.made /\ findCall.op = "findElement"
         /\ ~findCall.descriptor.null /\ WellFormed(findCall.descriptor)) =>
        LET m(strategy) ==
                StrategyMatch(findCall.document, findCall.descriptor, strategy)
        IN findCall.result =
               Found(IF m("testId") # 0 THEN m("testId")
                     ELSE IF m("css") # 0 THEN m("css")
                     ELSE IF m("xpath") # 0 THEN m("xpath")
                     ELSE m("text"))

\* the part of C16 that holds: the order is css, testId, xpath, text, and a
\* descriptor with only testId returns the first element carrying it
C16_CodeOrder ==
    (findCall.made /\ findCall.op = "findElement"
         /\ ~findCall.descriptor.null /\ WellFormed(findCall.descriptor)) =>
        LET m(strategy) ==
                StrategyMatch(findCall.document, findCall.descriptor, strategy)
        IN findCall.result =
               Found(IF m("css") # 0 THEN m("css")
                     ELSE IF m("testId") # 0 THEN m("testId")
                     ELSE IF m("xpath") # 0 THEN m("xpath")
                     ELSE m("text"))

\* C17: findElement never throws, whatever the descriptor (null, empty, or
\* with a css, xpath or testId value that does not parse), and returns null
\* when no strategy matches.
C17_NeverThrows ==
    (findCall.made /\ findCall.op = "findElement") =>
        /\ findCall.result.kind # "throws"
        /\ (\A strategy \in {"testId", "css", "xpath", "text"} :
                StrategyMatch(findCall.document, findCall.descriptor, strategy) = 0)
               => findCall.result = Found(0)

\* the part of C17 that holds: a css or xpath value that does not parse is a
\* failed strategy, and a null descriptor gives null
C17_CssXPathCaught ==
    (findCall.made /\ findCall.op = "findElement"
         /\ ~HasDQuote(findCall.descriptor.testId)) =>
        /\ findCall.result.kind # "throws"
        /\ (\A strategy \in {"testId", "css", "xpath", "text"} :
                StrategyMatch(findCall.document, findCall.descriptor, strategy) = 0)
               => findCall.result = Found(0)

\* C18: for an element el with a data-testid or an id,
\* findElement(generateSelector(el)) is el, describing the result again gives
\* the same css selector, and that selector matches exactly el.
C18_RoundTrip ==
    (findCall.made /\ findCall.op = "roundTrip"
         /\ WellFormed(findCall.descriptor)) =>
        /\ findCall.result = Found(findCall.el)
        /\ findCall.described.css = findCall.descriptor.css
        /\ querySelectorAll(findCall.document, findCall.descriptor.css)
               = {findCall.el}

\* the part of C18 that holds: the round trip is exact for an element that
\* is the only one carrying its data-testid (or, without one, its id)
C18_UniqueRoundTrip ==
    (findCall.made /\ findCall.op = "roundTrip"
         /\ WellFormed(findCall.descriptor)
         /\ querySelectorAll(findCall.document, findCall.descriptor.css)
                = {findCall.el}) =>
        /\ findCall.result = Found(findCall.el)
        /\ findCall.described.css = findCall.descriptor.css

\* C19: while pick mode is active a click on a candidate reports the
\* generated descriptor and the element once and leaves pick mode; Escape or
\* Cancel leave pick mode and report nothing; while pick mode is inactive no
\* click or key press reports anything.
C19_PickLifeCycle ==
    [][LET event == picker'.lastEvent
           reports == Len(picker'.onSelectCalls) - Len(picker.onSelectCalls)
       IN /\ reports \in {0, 1}
          /\ reports = 1 <=>
                 (event.type = "click" /\ picker.isActive
                      /\ picker.hoveredElement # 0)
          /\ reports = 1 =>
                 /\ picker'.onSelectCalls =
                        Append(picker.onSelectCalls,
                               [selector |-> generateSelector(PickPage[picker.hoveredElement]),
                                element |-> picker.hoveredElement])
                 /\ ~picker'.isActive
          /\ (picker.isActive
                  /\ (event.type = "cancel"
                          \/ (event.type = "keydown" /\ event.key = "Escape")))
                 => (~picker'.isActive /\ reports = 0)
          /\ ~picker.isActive =>
                 (reports = 0 /\ (event.type # "activate" => ~picker'.isActive))]_vars

C19_Witness ==
    /\ ~picker.isActive
    /\ picker.lastEvent.type = "cancel"
    /\ picker.hoveredElement = 2
    /\ picker.onSelectCalls =
           <<[selector |-> generateSelector(PickPage[1]), element |-> 1]>>

\* the elements are safe: allowed tags only, no on* attribute, no href or
\* src starting with javascript: or data:, and every link with
\* target="_blank" and rel="noopener noreferrer"
Safe(elements) ==
    \A e \in elements :
        /\ e.tag \in allowedTags
        /\ \A a \in e.attrs :
               /\ a.name \notin {"onclick", "onerror"}
               /\ a.name \in {"href", "src"} => a.value \notin {"javascript:", "data:"}
        /\ e.tag = "a" =>
               /\ Attr("target", "_blank") \in e.attrs
               /\ Attr("rel", "noopener noreferrer") \in e.attrs
               /\ \A a \in e.attrs :
                      a.name = "target" => a.value = "_blank"

\* C20: for every body containing '<' the markup rendered from sanitizeHTML
\* makes only safe elements, at any depth; a body without '<' is rendered as
\* plain text.
C20_Sanitized ==
    bodyCall.made =>
        /\ Safe(bodyCall.elements)
        /\ ~IncludesLt(bodyCall.body) => (~bodyCall.asHTML /\ bodyCall.elements = {})

\* the part of C20 that holds: the DOM pass run in the browser
C20_BrowserSanitized ==
    (bodyCall.made /\ bodyCall.environment = "browser") =>
        /\ Safe(bodyCall.elements)
        /\ ~IncludesLt(bodyCall.body) => (~bodyCall.asHTML /\ bodyCall.elements = {})

\* C21: in GuideRenderer every change of the step index is followed by an
\* onStepChange call with the new index and the step count, and no call is
\* made without a change (a retreat at 0); the advance from the last step
\* calls onComplete(guide); every onDismiss call carries the guide and the
\* index at which the dismiss control was activated. The mount call is made
\* by InitRenderer.
C21_Notifications ==
    [][/\ shownStepIndex' # shownStepIndex
           => /\ stepChange'.index = shownStepIndex'
              /\ stepChange'.total = StepsLength(guide)
              /\ stepChange'.n # stepChange.n
       /\ stepChange' # stepChange => shownStepIndex' # shownStepIndex
       /\ (lastClick'.calls = "onPrev" /\ lastClick'.at = 0)
           => stepChange' = stepChange
       /\ (isActive /\ ~isActive' /\ onDismissCalls' = onDismissCalls)
           => /\ lastClick'.calls = "onNext"
              /\ lastClick'.at = StepsLength(guide) - 1
              /\ onCompleteCalls' = Append(onCompleteCalls, guide.id)
       /\ onCompleteCalls' # onCompleteCalls
           => /\ lastClick'.calls = "onNext"
              /\ shownStepIndex = StepsLength(guide) - 1
              /\ onCompleteCalls' = Append(onCompleteCalls, guide.id)
       /\ onDismissCalls' # onDismissCalls
           => onDismissCalls' =
                  Append(onDismissCalls,
                         DismissReport(IF bannerTimers' = bannerTimers
                                       THEN shownStepIndex
                                       ELSE Head(bannerTimers)))]_vars

\* the renderer stays on the step it notified
C21_NotifiedIndex == mounted => stepChange.index = shownStepIndex

C21_Witness ==
    /\ stepChange = [index |-> 1, total |-> 2, n |-> 1]
    /\ lastClick.calls = "onNext"
    /\ lastClick.at = 1
    /\ onCompleteCalls = <<1>>

\* C22: once a presenter is unmounted, none of the scroll and resize
\* listeners and none of the positioning timers it registered is left, and
\* every scroll listener is registered with capture = true.
C22_TornDown ==
    /\ \A l \in presenter.listeners : l.type = "scroll" => l.capture
    /\ ~presenter.mounted => presenter.listeners = {} /\ presenter.timers = 0

\* the part of C22 that holds: the listeners of every presenter, and the
\* timer of a TooltipStep
C22_ListenersRemoved ==
    /\ \A l \in presenter.listeners :
           /\ l.type = "scroll" => l.capture
           /\ l.fn = presenter.fn
    /\ ~presenter.mounted =>
           /\ presenter.listeners = {}
           /\ presenter.kind = "tooltip" => presenter.timers = 0

\* the ids of the sequence are pairwise different
NoDuplicates(ids) ==
    \A i, j \in 1..Len(ids) : i # j => ids[i] # ids[j]

\* C23: no guide id occurs more than once in completedGuideIds, nor in
\* dismissedGuideIds, whatever guides are started, finished and dismissed.
C23_RecordedOnce ==
    NoDuplicates(completedGuideIds) /\ NoDuplicates(dismissedGuideIds)

\* the part of C23 that holds: an id is recorded only by finishing or
\* dismissing the guide that is active, one id per call
C23_OneIdPerCall ==
    [][/\ completedGuideIds' # completedGuideIds
           => /\ lastCall'.op = "nextStep"
              /\ completedGuideIds' = Append(completedGuideIds, activeGuide.id)
       /\ dismissedGuideIds' # dismissedGuideIds
           => /\ lastCall'.op = "dismiss"
              /\ dismissedGuideIds' = Append(dismissedGuideIds, activeGuide.id)]_vars

\* the last fetch attempt of the call
LastAttempt == request.responses[Len(request.responses)]

\* C24: request makes at most two fetch attempts, the second only after a
\* 5xx response or a rejected fetch, never after a 4xx; when it settles it
\* returns the parsed body of a successful response or throws a CensusError,
\* with the status if the last attempt got a response; no timeout timer is
\* left pending once an attempt is over.
C24_RequestSettles ==
    /\ request.fetches <= 2
    /\ request.fetches = 2 =>
           \/ request.responses[1].kind # "response"
           \/ request.responses[1].status >= 500
    /\ request.timers \subseteq
           (IF request.pc \in {"fetching", "errorBody"} THEN {request.attempt} ELSE {})
    /\ request.pc = "done" =>
           \/ /\ request.outcome.kind = "returned"
              /\ LastAttempt.kind = "response"
              /\ LastAttempt.status \in 200..299
           \/ /\ request.outcome.kind = "CensusError"
              /\ request.outcome.status = LastAttempt.status

\* the part of C24 that holds: attempts, retries, timers, and every outcome
\* other than a successful response whose body does not parse
C24_RetryOnce ==
    /\ request.fetches <= 2
    /\ request.fetches = 2 =>
           \/ request.responses[1].kind # "response"
           \/ request.responses[1].status >= 500
    /\ request.timers \subseteq
           (IF request.pc \in {"fetching", "errorBody"} THEN {request.attempt} ELSE {})
    /\ (request.pc = "done" /\ request.outcome.kind # "SyntaxError") =>
           \/ /\ request.outcome.kind = "returned"
              /\ LastAttempt.kind = "response"
              /\ LastAttempt.status \in 200..299
           \/ /\ request.outcome.kind = "CensusError"
              /\ request.outcome.status = LastAttempt.status
              /\ ~(LastAttempt.kind = "response" /\ LastAttempt.status \in 200..299)

\* a control of the kinds in `calls` was activated in this step
Activated(calls) == lastClick' # lastClick /\ lastClick'.calls \in calls

\* C25: a click on the beacon toggles the popover (collapsed to expanded,
\* expanded to collapsed), a mousedown outside the popover collapses it, and
\* next / prev / dismiss from the popover leave it collapsed.
C25_BeaconToggles ==
    [][/\ Activated({"beacon"}) => isExpanded' = ~isExpanded
       /\ Activated({"mousedownOutside"}) => ~isExpanded'
       /\ (Activated({"onNext", "onPrev", "onDismiss"})
               /\ currentStep.step_type = "hotspot") => ~isExpanded']_vars

\* the part of C25 that holds: the beacon expands a collapsed popover, and
\* the popover collapses on an outside mousedown and on next / prev / dismiss
C25_ExpandsAndCollapses ==
    [][/\ (Activated({"beacon"}) /\ ~isExpanded) => isExpanded'
       /\ Activated({"mousedownOutside"}) => ~isExpanded'
       /\ (Activated({"onNext", "onPrev", "onDismiss"})
               /\ currentStep.step_type = "hotspot") => ~isExpanded']_vars

\* C26: calls of nextStep, prevStep and goToStep made through the callbacks
\* of one render, in any number and order before the next render, never take
\* the index of an active guide out of 0..length-1.
C26_BatchedInRange ==
    [][(/\ lastCall'.op \in {"nextStep", "prevStep", "goToStep"}
        /\ activeGuide # NoGuide
        /\ InRange(activeGuide, currentStepIndex)
        /\ activeGuide' # NoGuide)
           => InRange(activeGuide', currentStepIndex')]_vars

\* the part of C26 that holds: the first call made through the callbacks of
\* a render keeps an index that is in range in range
C26_FirstCallInRange ==
    [][(/\ lastCall'.op \in {"nextStep", "prevStep", "goToStep"}
        /\ captured.calls = 0 /\ captured'.calls = 1
        /\ activeGuide # NoGuide
        /\ InRange(activeGuide, currentStepIndex)
        /\ activeGuide' # NoGuide)
           => InRange(activeGuide', currentStepIndex')]_vars

\* C30: isPlaying is true only while a guide is active, whichever render's
\* callbacks the controls are called through.
C30_PlayingOnlyWhileActive == isPlaying => activeGuide # NoGuide

\* the part of C30 that holds: pause changes isPlaying only, resume through
\* callbacks of a render without an active guide changes nothing, and a call
\* through the callbacks of the latest render never leaves isPlaying set
\* without an active guide
C30_PauseAndResume ==
    [][/\ lastCall'.op = "pause" =>
              /\ ~isPlaying'
              /\ UNCHANGED <<activeGuide, currentStepIndex, completedGuideIds,
                             dismissedGuideIds>>
       /\ (lastCall'.op = "resume" /\ captured.activeGuide = NoGuide) =>
              UNCHANGED hookState
       /\ (captured.calls = 0 /\ captured'.calls = 1
               /\ (isPlaying => activeGuide # NoGuide)) =>
              (isPlaying' => activeGuide' # NoGuide)]_vars

\* no step of the guide defines buttons of its own
NoCustomButtons ==
    \A i \in 1..StepsLength(guide) : guide.guide_steps[i].buttons = {}

\* a step in which onDismiss is called by a default control: Done directly,
\* or the timeout that a banner's Got it or close button started
DefaultDismissal ==
    /\ onDismissCalls' # onDismissCalls
    /\ \/ bannerTimers' # bannerTimers
       \/ lastClick'.label \in DefaultLabels

LastReport == onDismissCalls'[Len(onDismissCalls')]

\* C27 as stated: in a guide without custom buttons onComplete is never
\* called, and every dismissal through a default control (the banner's close
\* button included) is reported at the last index.
C27_DismissedAtLast ==
    [][NoCustomButtons =>
          /\ onCompleteCalls' = << >>
          /\ DefaultDismissal => LastReport.step = StepsLength(guide) - 1]_vars

\* C27 amended: in a guide without custom buttons onComplete is never
\* called and the guide is left only by a call of onDismiss; Done and Got it
\* are offered on the last step only, and every dismissal through a default
\* control is reported at the index whose control was activated, which for
\* the banner's close button is any index of the guide.
C27_DefaultsNeverComplete ==
    [][NoCustomButtons =>
          /\ onCompleteCalls' = << >>
          /\ (isActive /\ ~isActive') => onDismissCalls' # onDismissCalls
          /\ (lastClick' # lastClick /\ lastClick'.label \in {"Done", "Got it"}) =>
                 lastClick'.at = StepsLength(guide) - 1
          /\ DefaultDismissal =>
                 /\ LastReport.step \in 0..(StepsLength(guide) - 1)
                 /\ LastReport.step = IF bannerTimers' = bannerTimers
                                      THEN lastClick'.at
                                      ELSE Head(bannerTimers)]_vars

\* a guide of two default steps left by Got it on its last banner
C27_Witness ==
    /\ NoCustomButtons
    /\ StepsLength(guide) = 2
    /\ lastClick.label = "Got it"
    /\ ~isActive
    /\ bannerTimers = << >>
    /\ onCompleteCalls = << >>
    /\ onDismissCalls = <<[guide |-> guide.id, step |-> 1]>>

\* a step in which a BannerStep timeout calls onDismiss
TimeoutReports ==
    bannerTimers' # bannerTimers /\ onDismissCalls' # onDismissCalls

\* C28: a banner's dismissal is reported once, whatever the number of clicks
\* on its dismiss controls during the 200 ms, and is not reported after
\* GuideRenderer was unmounted, stopped showing the banner or changed step.
C28_ReportedOnce ==
    [][TimeoutReports =>
          /\ Len(onDismissCalls') = 1
          /\ mounted
          /\ isActive
          /\ Head(bannerTimers) = shownStepIndex]_vars

\* the part of C28 that holds: every timeout reports the index on which its
\* click was made, and the first one to fire while that banner is still
\* shown makes the first report
C28_TimeoutReportsItsClick ==
    [][TimeoutReports =>
          /\ LastReport = DismissReport(Head(bannerTimers))
          /\ (onDismissCalls = << >> /\ Rendered /\ Head(bannerTimers) = shownStepIndex)
                 => onDismissCalls' = <<DismissReport(shownStepIndex)>>]_vars

\* C29: every activation of pick mode starts with no hovered element and no
\* generated descriptor, so a click that arrives before any pointer movement
\* of the new session reports nothing; and no report names body, html or
\* builder UI (element 0 of the page under the pointer).
C29_FreshSession ==
    [][/\ (~picker.isActive /\ picker'.isActive) =>
              /\ picker'.hoveredElement = 0
              /\ picker'.generatedSelector = NoDescriptor
       /\ (picker.lastEvent.type = "activate" /\ picker'.lastEvent.type = "click") =>
              picker'.onSelectCalls = picker.onSelectCalls
       /\ \A i \in 1..Len(picker'.onSelectCalls) :
              picker'.onSelectCalls[i].element # 0]_vars

\* the part of C29 that holds: the first activation starts empty, a click
\* after a pointer movement of the session reports the element that
\* movement named, and no report names element 0
C29_ReportsHovered ==
    [][/\ (~picker.isActive /\ picker'.isActive /\ picker.onSelectCalls = << >>
               /\ picker.lastEvent = NoEvent) =>
              picker'.hoveredElement = 0
       /\ \A target \in 1..Len(PickPage) :
              (picker.isActive /\ picker.lastEvent.type = "mousemove"
                   /\ picker.hoveredElement = target
                   /\ picker'.lastEvent.type = "click") =>
                  picker'.onSelectCalls =
                      Append(picker.onSelectCalls,
                             [selector |-> generateSelector(PickPage[target]),
                              element |-> target])
       /\ \A i \in 1..Len(picker'.onSelectCalls) :
              picker'.onSelectCalls[i].element # 0]_vars

====
